---- MODULE Spec2Model ----
(***************************************************************************)
(* GameVerse Hub 2.0: the auto-discovery / catalog merge subsystem         *)
(* (core/game_discovery.py, class GameDiscovery) and the profile and       *)
(* statistics tracker (core/profile_manager.py, class ProfileManager).     *)
(*                                                                         *)
(* JSON objects are functions from key strings to values; a missing key is *)
(* a key outside the DOMAIN.  Python's None is the string None.            *)
(***************************************************************************)
EXTENDS Integers, Sequences, FiniteSets, TLC

VARIABLES
    games_folder,      \* the games directory: whether it exists, and file name -> file content
    discovered_games,  \* GameDiscovery.discovered_games
    config_file,       \* games_config.json: whether it exists, and the persisted document
    since,             \* history: per file, the user data its catalog entry had when tracking began
    clock,             \* the wall clock, in instants
    profile_data,      \* ProfileManager.profile_data
    stats_data,        \* ProfileManager.stats_data
    profile_file,      \* data/profiles/<name>.json
    stats_file,        \* data/profiles/<name>_stats.json
    export_file,       \* the file export_profile writes and import_profile reads
    at_export,         \* history: the in-memory documents when export_profile last ran
    calls,             \* history: the record_game_session calls made, in order
    added_at,          \* history: the add_favorite calls counted, and per game id the call that last added it
    hub,               \* EnhancedGameHub: where the hub is (menu, waiting for the child) and the game launched
    launches,          \* history: the launches of the hub, each with its outcome
    ops,               \* history: the ProfileManager calls counted, where a run bounds them as a whole
    second,            \* a second ProfileManager of the same profile, in another process
    menu,              \* EnhancedGameHub: the screen, the games lists and the selection
    tictactoe,         \* TicTacToe (games/mini_board_game.py): the board and whose turn it is
    last_call          \* history: the last operation, its inputs, the state it read and its result

vars == << games_folder, discovered_games, config_file, since, clock, profile_data,
           stats_data, profile_file, stats_file, export_file, at_export, calls,
           added_at, hub, launches, ops, second, menu, tictactoe, last_call >>

catalog_vars == << games_folder, discovered_games, config_file, since >>
\* the state of the other processes: a second ProfileManager, the hub's menu, a game
aside_vars == << second, menu, tictactoe >>
hub_vars == << hub, launches >>
\* the state of a caller of the ProfileManager
caller_vars == << hub, launches, ops >>
profile_vars == << clock, profile_data, stats_data, profile_file, stats_file, export_file,
                  at_export, calls, added_at, ops >>

None == "<None>"

(***************************************************************************)
(* Generic helpers for JSON objects and lists.                             *)
(***************************************************************************)
EmptyDict == [k \in {} |-> None]

\* dict.update / item assignment: the keys of upd overwrite those of d
DictUpdate(d, upd) ==
    [k \in (DOMAIN d) \cup (DOMAIN upd) |-> IF k \in DOMAIN upd THEN upd[k] ELSE d[k]]

DictRestrict(d, keys) == [k \in (DOMAIN d) \cap keys |-> d[k]]

Range(s) == {s[i] : i \in DOMAIN s}

RECURSIVE SeqSum(_)
SeqSum(s) == IF s = << >> THEN 0 ELSE Head(s) + SeqSum(Tail(s))

\* all orderings of a finite set, as sequences without repetition
Orderings(S) ==
    {s \in [1..Cardinality(S) -> S] : \A i, j \in 1..Cardinality(S) : i # j => s[i] # s[j]}

(***************************************************************************)
(* The games folder: file names and file contents.                         *)
(***************************************************************************)
GameFiles == {"a.py", "b_c.py"}

\* Path.stem
Stem(f) == CASE f = "a.py" -> "a" [] f = "b_c.py" -> "b_c" [] f = "__init__.py" -> "__init__"

\* name.startswith("__")
StartsWithDunder(f) == f = "__init__.py"

\* filename.replace('_', ' ').title()
TitleCase(stem) == CASE stem = "a" -> "A" [] stem = "b_c" -> "B C" [] stem = "__init__" -> "  Init  "

\* f"assets/thumbnails/{stem}.png"
Thumbnail(stem) == << "assets/thumbnails/", stem, ".png" >>

(* A file content is described by what the extractor reads in it: whether  *)
(* ast.parse accepts it, the title comment of its first 20 lines (if any), *)
(* the TITLE variable (if any), its module docstring (if any), the import  *)
(* statements, the description comment (if any), and the keywords that     *)
(* occur in its lower-cased text.                                          *)
Contents ==
    { [valid |-> TRUE, title_comment |-> "Alpha", title_var |-> None,
       docstring |-> "First game", desc_comment |-> None, imports |-> {"pygame", "random"},
       words |-> {"jump", "bullet", "pygame", "class"}],
      [valid |-> TRUE, title_comment |-> None, title_var |-> None,
       docstring |-> None, desc_comment |-> "Second game", imports |-> {"numpy"},
       words |-> {"keyboard", "socket", "retro", "fast"}],
      [valid |-> FALSE, title_comment |-> "Alpha", title_var |-> None,
       docstring |-> None, desc_comment |-> None, imports |-> {},
       words |-> {"jump"}] }

(***************************************************************************)
(* The metadata extractor (text heuristics).                               *)
(***************************************************************************)
\* pairs <<w, kw>>: keyword kw is a proper substring of the word w of the text
SubstringPairs == { << "keyboard", "board" >> }

\* `kw in content.lower()`
Occurs(kw, content) == \E w \in content.words : w = kw \/ << w, kw >> \in SubstringPairs

AnyOccurs(kws, content) == \E kw \in kws : Occurs(kw, content)

_extract_title(content, filename) ==
    IF content.title_comment # None THEN content.title_comment
    ELSE IF content.title_var # None THEN content.title_var
    ELSE TitleCase(filename)

_extract_description(content) ==
    IF content.docstring # None THEN content.docstring
    ELSE IF content.desc_comment # None THEN content.desc_comment
    ELSE "A Python game"

\* faulty variant: the shooter keywords are tried before the platformer keywords
DetectCategoryShooterFirst(content) ==
    IF AnyOccurs({"shoot", "bullet", "enemy", "alien"}, content) THEN "shooter"
    ELSE IF AnyOccurs({"platform", "jump", "gravity"}, content) THEN "platformer"
    ELSE IF AnyOccurs({"puzzle", "solve", "brain", "logic"}, content) THEN "puzzle"
    ELSE IF AnyOccurs({"race", "car", "speed", "lap"}, content) THEN "racing"
    ELSE IF AnyOccurs({"break", "brick", "ball", "paddle"}, content) THEN "arcade"
    ELSE IF AnyOccurs({"click", "increment", "upgrade"}, content) THEN "clicker"
    ELSE IF AnyOccurs({"quiz", "question", "answer"}, content) THEN "quiz"
    ELSE IF AnyOccurs({"board", "chess", "checkers"}, content) THEN "board"
    ELSE IF AnyOccurs({"type", "typing", "keyboard"}, content) THEN "typing"
    ELSE IF AnyOccurs({"build", "city", "simulation"}, content) THEN "simulation"
    ELSE "arcade"

_detect_category(content) ==
    IF AnyOccurs({"platform", "jump", "gravity"}, content) THEN "platformer"
    ELSE IF AnyOccurs({"shoot", "bullet", "enemy", "alien"}, content) THEN "shooter"
    ELSE IF AnyOccurs({"puzzle", "solve", "brain", "logic"}, content) THEN "puzzle"
    ELSE IF AnyOccurs({"race", "car", "speed", "lap"}, content) THEN "racing"
    ELSE IF AnyOccurs({"break", "brick", "ball", "paddle"}, content) THEN "arcade"
    ELSE IF AnyOccurs({"click", "increment", "upgrade"}, content) THEN "clicker"
    ELSE IF AnyOccurs({"quiz", "question", "answer"}, content) THEN "quiz"
    ELSE IF AnyOccurs({"board", "chess", "checkers"}, content) THEN "board"
    ELSE IF AnyOccurs({"type", "typing", "keyboard"}, content) THEN "typing"
    ELSE IF AnyOccurs({"build", "city", "simulation"}, content) THEN "simulation"
    ELSE "arcade"

_detect_multiplayer(content) ==
    AnyOccurs({"multiplayer", "player2", "network", "socket", "client", "server"}, content)

\* list(set(...)): the order of the list is the set's, so the value is the set
_extract_requirements(content) ==
    {"pygame"} \cup (content.imports \ {"os", "sys", "random", "math", "time"})

TagIf(cond, tag) == IF cond THEN << tag >> ELSE << >>

_generate_tags(content) ==
    LET tags == TagIf(AnyOccurs({"retro", "pixel"}, content), "retro")
                \o TagIf(AnyOccurs({"neon", "glow"}, content), "neon")
                \o TagIf(AnyOccurs({"action", "fast"}, content), "action")
                \o TagIf(AnyOccurs({"casual", "relax"}, content), "casual")
                \o TagIf(AnyOccurs({"hard", "difficult"}, content), "challenging")
                \o TagIf(Occurs("pygame", content), "pygame")
                \o TagIf(Occurs("class", content), "oop")
    IN  SubSeq(tags, 1, IF Len(tags) < 5 THEN Len(tags) ELSE 5)

\* the fields rediscovery must not overwrite
UserOwned == {"playtime", "high_score", "last_played", "completion_rate"}

\* the game_info dictionary; the caller handles the unparseable case (None)
GameInfo(file, content) ==
    [ id |-> Stem(file),
      title |-> _extract_title(content, Stem(file)),
      file |-> file,
      description |-> _extract_description(content),
      category |-> _detect_category(content),
      difficulty |-> "medium",
      estimated_playtime |-> "10-20 min",
      multiplayer |-> _detect_multiplayer(content),
      requirements |-> _extract_requirements(content),
      version |-> "1.0.0",
      author |-> "Unknown",
      tags |-> _generate_tags(content),
      thumbnail |-> Thumbnail(Stem(file)),
      achievements |-> << >>,
      leaderboard |-> FALSE,
      last_played |-> None,
      playtime |-> 0,
      high_score |-> 0,
      completion_rate |-> 0 ]

\* faulty variant: no except clause, the exception of ast.parse leaves the function
AnalyzeUncaught(file, content) ==
    IF content.valid
    THEN [ ret |-> << GameInfo(file, content) >>, printed |-> << >>, raised |-> FALSE ]
    ELSE [ ret |-> << >>, printed |-> << >>, raised |-> TRUE ]

\* Optional[Dict] as a sequence of length 0 or 1 (ret), the lines printed, and
\* whether an exception leaves the function: ast.parse raising (or the file
\* not decoding) is caught, reported by print, and ends in `return None`
_analyze_game_file(file, content) ==
    IF content.valid
    THEN [ ret |-> << GameInfo(file, content) >>, printed |-> << >>, raised |-> FALSE ]
    ELSE [ ret |-> << >>, printed |-> << << "Error analyzing", file >> >>, raised |-> FALSE ]

\* the loop of scan_games_folder over glob("*.py"), which lists in `order`:
\* the list built, the lines printed, and whether an exception ended the loop
RECURSIVE ScanLoop(_, _)
ScanLoop(order, files) ==
    IF order = << >> THEN [ discovered |-> << >>, printed |-> << >>, raised |-> FALSE ]
    ELSE LET game_file == Head(order)
             rest == ScanLoop(Tail(order), files)
             game_info == _analyze_game_file(game_file, files[game_file])
         IN  IF StartsWithDunder(game_file) THEN rest
             ELSE IF game_info.raised
             THEN [ discovered |-> << >>, printed |-> game_info.printed, raised |-> TRUE ]
             ELSE [ discovered |-> game_info.ret \o rest.discovered,
                    printed |-> game_info.printed \o rest.printed,
                    raised |-> rest.raised ]

(***************************************************************************)
(* The catalog store: merge_with_config.                                   *)
(***************************************************************************)
DefaultHubSettings ==
    [ theme |-> "retro", layout |-> "grid", auto_update |-> TRUE,
      analytics |-> FALSE, cloud_sync |-> FALSE, parental_controls |-> FALSE ]

\* existing_config.get('games', [])
ConfigGames(config) == IF "games" \in DOMAIN config THEN config.games ELSE << >>

\* game.get('file', '')
EntryFile(game) == IF "file" \in DOMAIN game THEN game.file ELSE ""

\* the existing_games lookup: a later entry of the same file replaces an earlier one
ExistingKeys(games) == {EntryFile(games[i]) : i \in DOMAIN games} \ {""}

ExistingGame(games, filename) ==
    LET last == CHOOSE i \in DOMAIN games :
                    /\ EntryFile(games[i]) = filename
                    /\ \A j \in DOMAIN games : EntryFile(games[j]) = filename => j <= i
    IN  games[last]

\* faulty variant: the overlay takes every discovered field, the user-owned ones included
OverlayAll(discovered) == discovered

\* the fields of the discovered record that overlay the existing entry
Overlay(discovered) == DictRestrict(discovered, (DOMAIN discovered) \ UserOwned)

MergeEntry(existing_games, discovered) ==
    IF discovered.file \in ExistingKeys(existing_games)
    THEN LET existing == ExistingGame(existing_games, discovered.file)
             with_id == IF "id" \notin DOMAIN existing
                        THEN DictUpdate(existing, [id |-> discovered.id])
                        ELSE existing
         IN  DictUpdate(with_id, Overlay(discovered))
    ELSE discovered

\* faulty variant: the existing entries whose file was not discovered are kept at the end
MergedGamesKeepStale(existing_games, discovered_list) ==
    [i \in DOMAIN discovered_list |-> MergeEntry(existing_games, discovered_list[i])]
    \o SelectSeq(existing_games,
                 LAMBDA e : EntryFile(e) \notin {discovered_list[i].file : i \in DOMAIN discovered_list})

\* faulty variant: the merged entries are added to the existing list
MergedGamesAppended(existing_games, discovered_list) ==
    existing_games \o
    [i \in DOMAIN discovered_list |-> MergeEntry(existing_games, discovered_list[i])]

MergedGames(existing_games, discovered_list) ==
    [i \in DOMAIN discovered_list |-> MergeEntry(existing_games, discovered_list[i])]

\* faulty variant: the default settings are filled in under an existing hub_settings
MergeBackfillsSettings(existing_config, discovered_list) ==
    LET merged_games == MergedGames(ConfigGames(existing_config), discovered_list)
        final_config == DictUpdate(existing_config, [games |-> merged_games])
    IN  IF "hub_settings" \notin DOMAIN final_config
        THEN DictUpdate(final_config, [hub_settings |-> DefaultHubSettings])
        ELSE DictUpdate(final_config,
                        [hub_settings |-> DictUpdate(DefaultHubSettings, final_config.hub_settings)])

merge_with_config(existing_config, discovered_list) ==
    LET merged_games == MergedGames(ConfigGames(existing_config), discovered_list)
        final_config == DictUpdate(existing_config, [games |-> merged_games])
    IN  IF "hub_settings" \notin DOMAIN final_config
        THEN DictUpdate(final_config, [hub_settings |-> DefaultHubSettings])
        ELSE final_config

\* the document merge_with_config loads: {} when the file does not exist
LoadConfig(file) == IF file.exists THEN file.doc ELSE EmptyDict

(***************************************************************************)
(* Catalog state: initial documents, history, and the operations.          *)
(***************************************************************************)
ContentA == CHOOSE c \in Contents : c.valid /\ c.title_comment = "Alpha"

\* an entry written by an earlier run, since then played by the user
PlayedEntry(file, id) ==
    DictUpdate(GameInfo("a.py", ContentA),
               [ file |-> file, id |-> id, title |-> "Old title", playtime |-> 120, high_score |-> 50,
                 last_played |-> "2024-01-01T10:00:00", completion_rate |-> 40,
                 favorite |-> TRUE ])

\* a hand-written entry of an older format: no id, only some of the user fields
LegacyEntry(file) == [ file |-> file, title |-> "Legacy", high_score |-> 9 ]

\* an entry that names no file
NamelessEntry == [ id |-> "ghost", title |-> "No file", playtime |-> 7 ]

InitDocs ==
    { [ games |-> << PlayedEntry("a.py", "a") >>, hub_settings |-> [ theme |-> "neon" ] ],
      [ games |-> << LegacyEntry("b_c.py"), PlayedEntry("gone.py", "gone"), NamelessEntry >>,
        version |-> "2.0.0" ],
      [ games |-> << LegacyEntry("a.py"), PlayedEntry("a.py", "a") >> ],
      [ hub_settings |-> DefaultHubSettings ] }

InitConfigFiles ==
    { [ exists |-> FALSE, doc |-> EmptyDict ] } \cup { [ exists |-> TRUE, doc |-> d ] : d \in InitDocs }

UserData(entry) == DictRestrict(entry, UserOwned)

HasEntry(file_state, f) == file_state.exists /\ f \in ExistingKeys(ConfigGames(file_state.doc))

EntryOf(file_state, f) == ExistingGame(ConfigGames(file_state.doc), f)

InFolder(folder, f) == folder.exists /\ f \in DOMAIN folder.files

Untracked == [ tracked |-> FALSE, user |-> EmptyDict, scanned |-> FALSE ]

(* History of the user data of each game file.  Tracking of a file begins   *)
(* when the file is in the games folder and the persisted catalog has an    *)
(* entry for it, and ends when the file leaves the folder; `scanned` tells  *)
(* that scan_games_folder has run since tracking began.  A save that is not *)
(* preceded by such a scan starts the tracking afresh.                      *)
Track(old, folder, file_state, op) ==
    [ f \in GameFiles |->
        IF ~InFolder(folder, f) THEN Untracked
        ELSE IF ~old[f].tracked \/ (op = "save" /\ ~old[f].scanned)
        THEN IF HasEntry(file_state, f)
             THEN [ tracked |-> TRUE, user |-> UserData(EntryOf(file_state, f)), scanned |-> FALSE ]
             ELSE Untracked
        ELSE [ old[f] EXCEPT !.scanned = @ \/ op = "scan" ] ]

InitCatalog ==
    /\ games_folder = [ exists |-> TRUE, files |-> [ f \in {"a.py", "__init__.py"} |-> ContentA ] ]
    /\ discovered_games = << >>
    /\ config_file \in InitConfigFiles
    /\ since = Track([ f \in GameFiles |-> Untracked ], games_folder, config_file, "init")

\* the contents the environment gives a file (every file can become unparseable)
WritableContents(f) == IF f = "a.py" THEN Contents ELSE Contents \ {ContentA}

PackageMarker == [ f \in {"__init__.py"} |-> ContentA ]

\* the user, an editor or an installer changes the games folder
WriteFile ==
    /\ games_folder.exists
    /\ \E f \in GameFiles : \E c \in WritableContents(f) :
          games_folder' = [ games_folder EXCEPT !.files = DictUpdate(@, [ x \in {f} |-> c ]) ]
    /\ since' = Track(since, games_folder', config_file, "env")
    /\ last_call' = [ op |-> "folder_change" ]
    /\ UNCHANGED << discovered_games, config_file >>
    /\ UNCHANGED profile_vars
    /\ UNCHANGED aside_vars
    /\ UNCHANGED hub_vars

DeleteFile ==
    /\ games_folder.exists
    /\ \E f \in (DOMAIN games_folder.files) \cap GameFiles :
          games_folder' = [ games_folder EXCEPT !.files = DictRestrict(@, (DOMAIN @) \ {f}) ]
    /\ since' = Track(since, games_folder', config_file, "env")
    /\ last_call' = [ op |-> "folder_change" ]
    /\ UNCHANGED << discovered_games, config_file >>
    /\ UNCHANGED profile_vars
    /\ UNCHANGED aside_vars
    /\ UNCHANGED hub_vars

RemoveFolder ==
    /\ games_folder.exists
    /\ games_folder' = [ exists |-> FALSE, files |-> EmptyDict ]
    /\ since' = Track(since, games_folder', config_file, "env")
    /\ last_call' = [ op |-> "folder_change" ]
    /\ UNCHANGED << discovered_games, config_file >>
    /\ UNCHANGED profile_vars
    /\ UNCHANGED aside_vars
    /\ UNCHANGED hub_vars

MakeFolder ==
    /\ ~games_folder.exists
    /\ games_folder' = [ exists |-> TRUE, files |-> PackageMarker ]
    /\ since' = Track(since, games_folder', config_file, "env")
    /\ last_call' = [ op |-> "folder_change" ]
    /\ UNCHANGED << discovered_games, config_file >>
    /\ UNCHANGED profile_vars
    /\ UNCHANGED aside_vars
    /\ UNCHANGED hub_vars

\* a missing folder returns [] and leaves self.discovered_games as it was; so
\* does an exception that ends the loop, which has no value to return
scan_games_folder ==
    /\ IF ~games_folder.exists
       THEN /\ discovered_games' = discovered_games
            /\ last_call' = [ op |-> "scan_games_folder", ret |-> << >>, printed |-> << >>,
                              raised |-> FALSE ]
       ELSE \E order \in Orderings(DOMAIN games_folder.files) :
               LET scan == ScanLoop(order, games_folder.files)
               IN  /\ discovered_games' = IF scan.raised THEN discovered_games
                                          ELSE scan.discovered
                   /\ last_call' = [ op |-> "scan_games_folder", ret |-> scan.discovered,
                                     printed |-> scan.printed, raised |-> scan.raised ]
    /\ since' = Track(since, games_folder, config_file, "scan")
    /\ UNCHANGED << games_folder, config_file >>
    /\ UNCHANGED profile_vars
    /\ UNCHANGED aside_vars
    /\ UNCHANGED hub_vars

\* merge_with_config called on its own: it reads the file and returns the document
MergeWithConfig ==
    /\ last_call' = [ op |-> "merge_with_config",
                      existing |-> LoadConfig(config_file),
                      discovered |-> discovered_games,
                      ret |-> merge_with_config(LoadConfig(config_file), discovered_games) ]
    /\ UNCHANGED catalog_vars
    /\ UNCHANGED aside_vars
    /\ UNCHANGED profile_vars
    /\ UNCHANGED hub_vars

save_updated_config ==
    LET config == merge_with_config(LoadConfig(config_file), discovered_games)
    IN  /\ config_file' = [ exists |-> TRUE, doc |-> config ]
        /\ since' = Track(since, games_folder, config_file', "save")
        /\ last_call' = [ op |-> "save_updated_config",
                          repeated |-> last_call.op = "save_updated_config" ]
        /\ UNCHANGED << games_folder, discovered_games >>
        /\ UNCHANGED profile_vars
        /\ UNCHANGED aside_vars
        /\ UNCHANGED hub_vars

\* the discovery run of the hub and of the module's main: scan, merge, save,
\* while files are written in the games folder
NextMerge ==
    \/ WriteFile
    \/ scan_games_folder
    \/ MergeWithConfig
    \/ save_updated_config

NextCatalog ==
    \/ WriteFile
    \/ DeleteFile
    \/ RemoveFolder
    \/ MakeFolder
    \/ scan_games_folder
    \/ MergeWithConfig
    \/ save_updated_config

(***************************************************************************)
(* The clock and the calendar.  The clock counts days: datetime.now() is   *)
(* read to the day, and a timestamp (isoformat) is the day it was taken.   *)
(* Day 0 is Friday 2023-06-30, so day 1 starts a month and day 2 (a        *)
(* Sunday) starts a %U week.                                               *)
(***************************************************************************)
Month(day) == IF day <= 0 THEN 6 ELSE 7

DayOfMonth(day) == IF day <= 0 THEN 30 + day ELSE day

\* tm_yday - 1 and tm_wday with Sunday = 0, as %U counts
YearDay(day) == 180 + day
WeekDay(day) == (5 + day) % 7

\* strftime("%Y-%m-%d"), strftime("%Y-W%U"), strftime("%Y-%m")
DateKey(day) == << 2023, Month(day), DayOfMonth(day) >>
WeekKey(day) == << 2023, "W", (YearDay(day) + 7 - WeekDay(day)) \div 7 >>
MonthKey(day) == << 2023, Month(day) >>

(***************************************************************************)
(* Values of the statistics: ordered dictionaries and the average.         *)
(***************************************************************************)
\* a dict whose iteration order matters: the sequence of its items, in insertion order
OKeys(d) == {d[i].key : i \in DOMAIN d}

OGet(d, k) == d[CHOOSE i \in DOMAIN d : d[i].key = k].val

OPut(d, k, v) ==
    IF k \in OKeys(d)
    THEN [i \in DOMAIN d |-> IF d[i].key = k THEN [key |-> k, val |-> v] ELSE d[i]]
    ELSE Append(d, [key |-> k, val |-> v])

RECURSIVE Gcd(_, _)
Gcd(a, b) == IF b = 0 THEN a ELSE Gcd(b, a % b)

\* Python's numbers that need not be whole (the result of `/`) are exact
\* fractions in lowest terms: the rounding of floats is left out
Frac(n, d) == LET g == Gcd(n, d) IN [num |-> n \div g, den |-> d \div g]

\* faulty variant: the old average is weighted by the new session count
NewAverageOverweighted(current_avg, sessions, score) ==
    Frac(current_avg.num * sessions + score * current_avg.den, current_avg.den * sessions)

\* ((current_avg * (sessions - 1)) + score) / sessions
NewAverage(current_avg, sessions, score) ==
    Frac(current_avg.num * (sessions - 1) + score * current_avg.den, current_avg.den * sessions)

(***************************************************************************)
(* ProfileManager: the documents and the operations.                       *)
(***************************************************************************)
ProfileName == "default"

DefaultProfile(now) ==
    [ name |-> ProfileName,
      created_date |-> now,
      last_active |-> now,
      preferences |-> [ theme |-> "retro", layout |-> "grid", sound_enabled |-> TRUE,
                        music_enabled |-> TRUE, volume |-> "0.7", auto_save |-> TRUE,
                        show_fps |-> FALSE, difficulty_preference |-> "medium" ],
      achievements |-> EmptyDict,
      favorites |-> << >>,
      blocked_games |-> << >>,
      parental_settings |-> [ enabled |-> FALSE, time_limit_minutes |-> 0,
                              allowed_categories |-> << >> ] ]

DefaultStats ==
    [ total_playtime |-> 0,
      games_played |-> 0,
      favorite_category |-> "arcade",
      achievement_count |-> 0,
      high_scores |-> EmptyDict,
      game_stats |-> << >>,
      daily_stats |-> EmptyDict,
      weekly_stats |-> EmptyDict,
      monthly_stats |-> EmptyDict ]

\* _save_profile stamps last_active on the dictionary it is given and writes it
Stamped(data, now) == DictUpdate(data, [ last_active |-> now ])

NewGameStats ==
    [ playtime |-> 0, sessions |-> 0, high_score |-> 0, average_score |-> Frac(0, 1),
      last_played |-> None, completion_rate |-> 0 ]

\* faulty variant: the high score is the last score
SessionGameStatsLast(old, duration, score, now) ==
    [ old EXCEPT !.playtime = @ + duration,
                 !.sessions = @ + 1,
                 !.last_played = now,
                 !.high_score = score,
                 !.average_score = IF score > 0 THEN NewAverage(@, old.sessions + 1, score) ELSE @ ]

\* lines 138-162: the per-game record after the session
SessionGameStats(old, duration, score, now) ==
    LET sessions == old.sessions + 1
        high == IF score > old.high_score THEN score ELSE old.high_score
        avg == IF score > 0 THEN NewAverage(old.average_score, sessions, score)
               ELSE old.average_score
    IN  [ old EXCEPT !.playtime = @ + duration,
                     !.sessions = sessions,
                     !.last_played = now,
                     !.high_score = high,
                     !.average_score = avg ]

NewDaily == [ playtime |-> 0, games |-> << >>, scores |-> EmptyDict ]

\* the weekly and monthly bucket; its empty set() of games is replaced by a
\* list before the bucket is read or saved
NewPeriod == [ playtime |-> 0, games |-> << >>, sessions |-> 0 ]

\* list(a_set): the elements once each, in an order the program does not
\* choose (no operation reads the order)
ListOfSet(S) == CHOOSE s \in Orderings(S) : TRUE

Bucket(buckets, key, fresh) == IF key \in DOMAIN buckets THEN buckets[key] ELSE fresh

DailyAfter(daily, game_id, duration, score) ==
    [ playtime |-> daily.playtime + duration,
      games |-> IF game_id \in Range(daily.games) THEN daily.games
                ELSE Append(daily.games, game_id),
      scores |-> DictUpdate(daily.scores,
                            [ g \in {game_id} |->
                                Append(IF game_id \in DOMAIN daily.scores
                                       THEN daily.scores[game_id] ELSE << >>, score) ]) ]

\* faulty variant: the bucket's playtime is assigned the duration instead of growing by it
PeriodAfterAssigned(period, game_id, duration) ==
    [ playtime |-> duration,
      games |-> ListOfSet(Range(period.games) \cup {game_id}),
      sessions |-> period.sessions + 1 ]

\* faulty variant: the game id is appended to the bucket's games at every session
PeriodAfterAppended(period, game_id, duration) ==
    [ playtime |-> period.playtime + duration,
      games |-> Append(period.games, game_id),
      sessions |-> period.sessions + 1 ]

\* list(set(period["games"]) | {game_id})
PeriodAfter(period, game_id, duration) ==
    [ playtime |-> period.playtime + duration,
      games |-> ListOfSet(Range(period.games) \cup {game_id}),
      sessions |-> period.sessions + 1 ]

_update_time_based_stats(stats, game_id, duration, score, now) ==
    LET today == DateKey(now)
        this_week == WeekKey(now)
        this_month == MonthKey(now)
    IN  [ stats EXCEPT
            !.daily_stats = DictUpdate(@, [ k \in {today} |->
                DailyAfter(Bucket(@, today, NewDaily), game_id, duration, score) ]),
            !.weekly_stats = DictUpdate(@, [ k \in {this_week} |->
                PeriodAfter(Bucket(@, this_week, NewPeriod), game_id, duration) ]),
            !.monthly_stats = DictUpdate(@, [ k \in {this_month} |->
                PeriodAfter(Bucket(@, this_month, NewPeriod), game_id, duration) ]) ]

\* faulty variant: total_playtime is assigned the duration instead of growing by it
RecordedStatsAssigned(stats, game_id, duration, score, t1, t2) ==
    LET old == IF game_id \in OKeys(stats.game_stats) THEN OGet(stats.game_stats, game_id)
               ELSE NewGameStats
        new == SessionGameStats(old, duration, score, t1)
        totals == [ stats EXCEPT
                      !.total_playtime = duration,
                      !.games_played = @ + 1,
                      !.game_stats = OPut(@, game_id, new),
                      !.high_scores = IF score > old.high_score
                                      THEN DictUpdate(@, [ g \in {game_id} |-> score ])
                                      ELSE @ ]
    IN  _update_time_based_stats(totals, game_id, duration, score, t2)

\* faulty variant: every score is mirrored into high_scores, the high score or not
RecordedStatsMirrored(stats, game_id, duration, score, t1, t2) ==
    LET old == IF game_id \in OKeys(stats.game_stats) THEN OGet(stats.game_stats, game_id)
               ELSE NewGameStats
        new == SessionGameStats(old, duration, score, t1)
        totals == [ stats EXCEPT
                      !.total_playtime = @ + duration,
                      !.games_played = @ + 1,
                      !.game_stats = OPut(@, game_id, new),
                      !.high_scores = DictUpdate(@, [ g \in {game_id} |-> score ]) ]
    IN  _update_time_based_stats(totals, game_id, duration, score, t2)

\* the statistics after record_game_session; t1 and t2 are its two readings
\* of the clock (last_played, then the buckets' keys)
RecordedStats(stats, game_id, duration, score, t1, t2) ==
    LET old == IF game_id \in OKeys(stats.game_stats) THEN OGet(stats.game_stats, game_id)
               ELSE NewGameStats
        new == SessionGameStats(old, duration, score, t1)
        totals == [ stats EXCEPT
                      !.total_playtime = @ + duration,
                      !.games_played = @ + 1,
                      !.game_stats = OPut(@, game_id, new),
                      !.high_scores = IF score > old.high_score
                                      THEN DictUpdate(@, [ g \in {game_id} |-> score ])
                                      ELSE @ ]
    IN  _update_time_based_stats(totals, game_id, duration, score, t2)

InitProfile ==
    /\ clock = 0
    /\ profile_data = DefaultProfile(clock)
    /\ stats_data = DefaultStats
    /\ profile_file = [ exists |-> TRUE, doc |-> profile_data ]
    /\ stats_file = [ exists |-> TRUE, doc |-> stats_data ]
    /\ export_file = [ exists |-> FALSE, doc |-> EmptyDict ]
    /\ at_export = [ profile |-> EmptyDict, stats |-> EmptyDict ]
    /\ calls = << >>
    /\ added_at = [ n |-> 0, at |-> [ g \in {} |-> 0 ] ]
    /\ ops = 0
    /\ hub = [ pc |-> "menu" ]
    /\ launches = << >>

InitAside ==
    /\ second = [ constructed |-> FALSE ]
    /\ menu = [ state |-> "menu" ]
    /\ tictactoe = [ game_over |-> FALSE ]

Init ==
    /\ InitCatalog
    /\ InitProfile
    /\ InitAside
    /\ last_call = [ op |-> "init" ]

\* a first run: no games_config.json yet
InitFirstRun == Init /\ ~config_file.exists

\* the sessions a caller records
GameIds == {"x", "y"}
Durations == {300, 600}
Scores == {0, 100, 300}

MaxCalls == 3
MaxClock == 2

\* the clock moves on by a day
Passes ==
    /\ clock < MaxClock
    /\ clock' = clock + 1
    /\ last_call' = [ op |-> "tick" ]
    /\ UNCHANGED << profile_data, stats_data, profile_file, stats_file, calls, added_at, export_file, at_export >>
    /\ UNCHANGED catalog_vars
    /\ UNCHANGED aside_vars

\* time passes between two calls
Tick == Passes /\ UNCHANGED caller_vars

record_game_session(game_id, duration_seconds, score, t1, t2) ==
    /\ Len(calls) < MaxCalls
    /\ clock <= t1 /\ t1 <= t2 /\ t2 <= MaxClock
    /\ stats_data' = RecordedStats(stats_data, game_id, duration_seconds, score, t1, t2)
    /\ stats_file' = [ exists |-> TRUE, doc |-> stats_data' ]
    /\ clock' = t2
    /\ calls' = Append(calls, [ game_id |-> game_id, duration |-> duration_seconds,
                                score |-> score, day |-> t2 ])
    /\ last_call' = [ op |-> "record_game_session", game_id |-> game_id,
                      duration |-> duration_seconds, score |-> score,
                      before |-> stats_data ]
    /\ UNCHANGED << profile_data, profile_file, added_at, export_file, at_export >>
    /\ UNCHANGED catalog_vars
    /\ UNCHANGED aside_vars

\* sessions recorded with any score, the clock standing still
RecordSession ==
    /\ \E g \in GameIds, d \in Durations, s \in Scores :
          record_game_session(g, d, s, clock, clock)
    /\ UNCHANGED caller_vars

NextSessions == RecordSession

\* list.remove(x): the first occurrence goes
RemoveFirst(list, x) ==
    LET i == CHOOSE k \in DOMAIN list : list[k] = x /\ \A j \in 1..(k - 1) : list[j] # x
    IN  SubSeq(list, 1, i - 1) \o SubSeq(list, i + 1, Len(list))

\* faulty variant: add_favorite appends without looking
FavoritesAddedBlindly(favorites, game_id) ==
    [ favorites |-> Append(favorites, game_id), save |-> TRUE ]

\* add_favorite: the new list, and whether _save_profile runs
FavoritesAdded(favorites, game_id) ==
    IF game_id \notin Range(favorites)
    THEN [ favorites |-> Append(favorites, game_id), save |-> TRUE ]
    ELSE [ favorites |-> favorites, save |-> FALSE ]

\* remove_favorite: the new list, and whether _save_profile runs
FavoritesRemoved(favorites, game_id) ==
    IF game_id \in Range(favorites)
    THEN [ favorites |-> RemoveFirst(favorites, game_id), save |-> TRUE ]
    ELSE [ favorites |-> favorites, save |-> FALSE ]

\* game_id in self.profile_data.get("favorites", [])
is_favorite(profile, game_id) ==
    game_id \in Range(IF "favorites" \in DOMAIN profile THEN profile.favorites ELSE << >>)

FavoriteIds == {"x", "y", "z"}

MaxAdds == 4

\* the profile with its favorites replaced; `now` is the clock _save_profile reads
ProfileWithFavorites(profile, change, now) ==
    IF change.save THEN Stamped([ profile EXCEPT !.favorites = change.favorites ], now)
    ELSE profile

add_favorite(game_id, now) ==
    LET change == FavoritesAdded(profile_data.favorites, game_id)
    IN  /\ added_at.n < MaxAdds
        /\ clock <= now /\ now <= MaxClock
        /\ profile_data' = ProfileWithFavorites(profile_data, change, now)
        /\ profile_file' = IF change.save THEN [ exists |-> TRUE, doc |-> profile_data' ]
                           ELSE profile_file
        /\ clock' = IF change.save THEN now ELSE clock
        /\ added_at' = [ n |-> added_at.n + 1,
                         at |-> IF game_id \in Range(profile_data.favorites) THEN added_at.at
                                ELSE DictUpdate(added_at.at, [ g \in {game_id} |-> added_at.n + 1 ]) ]
        /\ last_call' = [ op |-> "add_favorite", game_id |-> game_id,
                          before |-> profile_data.favorites ]
        /\ UNCHANGED << stats_data, stats_file, calls, export_file, at_export >>
        /\ UNCHANGED catalog_vars
        /\ UNCHANGED aside_vars

remove_favorite(game_id, now) ==
    LET change == FavoritesRemoved(profile_data.favorites, game_id)
    IN  /\ clock <= now /\ now <= MaxClock
        /\ profile_data' = ProfileWithFavorites(profile_data, change, now)
        /\ profile_file' = IF change.save THEN [ exists |-> TRUE, doc |-> profile_data' ]
                           ELSE profile_file
        /\ clock' = IF change.save THEN now ELSE clock
        /\ last_call' = [ op |-> "remove_favorite", game_id |-> game_id,
                          before |-> profile_data.favorites ]
        /\ UNCHANGED << stats_data, stats_file, calls, added_at, export_file, at_export >>
        /\ UNCHANGED catalog_vars
        /\ UNCHANGED aside_vars

AddFavorite == (\E g \in FavoriteIds : add_favorite(g, clock)) /\ UNCHANGED caller_vars

RemoveFavorite == (\E g \in FavoriteIds : remove_favorite(g, clock)) /\ UNCHANGED caller_vars

NextFavorites ==
    \/ AddFavorite
    \/ RemoveFavorite
    \/ Tick

AchievementIds == {"first_game", "high_roller"}
AchievementGames == {None, "x"}
Descriptions == {"", "Played your first game!"}

\* faulty variant: unlock_achievement stores the record whether or not the id is held
UnlockedAgain(profile, stats, achievement_id, game_id, description, t1, t2) ==
    [ profile |-> Stamped([ profile EXCEPT !.achievements = DictUpdate(@,
                     [ a \in {achievement_id} |->
                         [ unlocked_date |-> t1, game_id |-> game_id,
                           description |-> description ] ]) ], t2),
      stats |-> [ stats EXCEPT !.achievement_count = @ + 1 ],
      save |-> TRUE,
      ret |-> TRUE ]

\* faulty variant: unlock_achievement changes the dictionaries and writes no file
UnlockedUnsaved(profile, stats, achievement_id, game_id, description, t1, t2) ==
    IF achievement_id \notin DOMAIN profile.achievements
    THEN [ profile |-> [ profile EXCEPT !.achievements = DictUpdate(@,
                          [ a \in {achievement_id} |->
                              [ unlocked_date |-> t1, game_id |-> game_id,
                                description |-> description ] ]) ],
           stats |-> [ stats EXCEPT !.achievement_count = @ + 1 ],
           save |-> FALSE,
           ret |-> TRUE ]
    ELSE [ profile |-> profile, stats |-> stats, save |-> FALSE, ret |-> FALSE ]

\* unlock_achievement: both dictionaries after the call, whether they are
\* saved, and the value returned; t1 is the clock read for unlocked_date, t2
\* the clock _save_profile reads
Unlocked(profile, stats, achievement_id, game_id, description, t1, t2) ==
    IF achievement_id \notin DOMAIN profile.achievements
    THEN [ profile |-> Stamped([ profile EXCEPT !.achievements = DictUpdate(@,
                          [ a \in {achievement_id} |->
                              [ unlocked_date |-> t1, game_id |-> game_id,
                                description |-> description ] ]) ], t2),
           stats |-> [ stats EXCEPT !.achievement_count = @ + 1 ],
           save |-> TRUE,
           ret |-> TRUE ]
    ELSE [ profile |-> profile, stats |-> stats, save |-> FALSE, ret |-> FALSE ]

unlock_achievement(achievement_id, game_id, description, t1, t2) ==
    LET after == Unlocked(profile_data, stats_data, achievement_id, game_id, description, t1, t2)
    IN  /\ clock <= t1 /\ t1 <= t2 /\ t2 <= MaxClock
        /\ profile_data' = after.profile
        /\ stats_data' = after.stats
        /\ profile_file' = IF after.save THEN [ exists |-> TRUE, doc |-> after.profile ]
                           ELSE profile_file
        /\ stats_file' = IF after.save THEN [ exists |-> TRUE, doc |-> after.stats ]
                         ELSE stats_file
        /\ clock' = IF after.save THEN t2 ELSE clock
        /\ last_call' = [ op |-> "unlock_achievement", achievement_id |-> achievement_id,
                          game_id |-> game_id, description |-> description,
                          unlocked_date |-> t1, ret |-> after.ret,
                          before |-> [ profile_data |-> profile_data, stats_data |-> stats_data,
                                       profile_file |-> profile_file, stats_file |-> stats_file ] ]
        /\ UNCHANGED << calls, added_at, export_file, at_export >>
        /\ UNCHANGED catalog_vars
        /\ UNCHANGED aside_vars

UnlockAchievement ==
    /\ \E a \in AchievementIds, g \in AchievementGames, d \in Descriptions :
          unlock_achievement(a, g, d, clock, clock)
    /\ UNCHANGED caller_vars

NextAchievements ==
    \/ UnlockAchievement
    \/ Tick

\* self.stats_data.get("daily_stats", {}).get(date, {}).get("playtime", 0)
DailyPlaytimeOf(stats, date) ==
    LET daily_stats == IF "daily_stats" \in DOMAIN stats THEN stats.daily_stats ELSE EmptyDict
        bucket == IF date \in DOMAIN daily_stats THEN daily_stats[date] ELSE EmptyDict
    IN  IF "playtime" \in DOMAIN bucket THEN bucket.playtime ELSE 0

\* the dictionary get_daily_playtime builds: iteration i (from 0) reads the
\* clock, reads[i + 1], and stores under the date i days before it
DailyPlaytime(stats, days, reads) ==
    [ date \in {DateKey(reads[i + 1] - i) : i \in 0..(days - 1)} |-> DailyPlaytimeOf(stats, date) ]

\* the clock readings of a loop of n iterations that starts at `from`
ClockReadings(from, n) ==
    {r \in [1..n -> from..MaxClock] : \A i \in 1..(n - 1) : r[i] <= r[i + 1]}

MaxDays == 3

get_daily_playtime(days, reads) ==
    /\ last_call' = [ op |-> "get_daily_playtime", days |-> days, started |-> clock,
                      ret |-> DailyPlaytime(stats_data, days, reads) ]
    /\ clock' = IF days > 0 THEN reads[days] ELSE clock
    /\ UNCHANGED << profile_data, stats_data, profile_file, stats_file, calls, added_at, export_file, at_export >>
    /\ UNCHANGED catalog_vars
    /\ UNCHANGED aside_vars

\* the hub records each session with the placeholder score 0
RecordHubSession ==
    /\ \E g \in GameIds, d \in Durations, t1 \in clock..MaxClock :
          \E t2 \in t1..MaxClock : record_game_session(g, d, 0, t1, t2)
    /\ UNCHANGED caller_vars

GetDailyPlaytime ==
    /\ \E days \in 0..MaxDays : \E reads \in ClockReadings(clock, days) :
          get_daily_playtime(days, reads)
    /\ UNCHANGED caller_vars

NextDaily ==
    \/ RecordHubSession
    \/ GetDailyPlaytime
    \/ Tick

\* sessions of any length, an empty one included, recorded as the days go by
SessionLengths == {0, 300}
SessionScores == {0, 100}

RecordTimedSession ==
    /\ \E g \in GameIds, d \in SessionLengths, s \in SessionScores :
          record_game_session(g, d, s, clock, clock)
    /\ UNCHANGED caller_vars

NextBuckets ==
    \/ RecordTimedSession
    \/ Tick

(***************************************************************************)
(* Two processes on one profile.  Each has its own ProfileManager, that    *)
(* is its own stats_data, loaded when it is constructed; the two share the *)
(* files.  A call runs to its end in its process, so the processes         *)
(* interleave call by call.                                                *)
(***************************************************************************)
\* __init__ in the second process: the files exist, written by the first
ConstructSecond ==
    /\ ~second.constructed
    /\ second' = [ constructed |-> TRUE, profile_data |-> profile_file.doc,
                   stats_data |-> stats_file.doc ]
    /\ last_call' = [ op |-> "__init__", by |-> "second" ]
    /\ UNCHANGED profile_vars
    /\ UNCHANGED catalog_vars
    /\ UNCHANGED << hub, launches, menu, tictactoe >>

\* record_game_session in the first process, as its hub calls it
FirstRecordsSession ==
    /\ \E g \in GameIds, d \in Durations : record_game_session(g, d, 0, clock, clock)
    /\ UNCHANGED caller_vars

\* record_game_session in the second process: its own stats_data, the shared file
SecondRecordsSession ==
    /\ second.constructed
    /\ Len(calls) < MaxCalls
    /\ \E g \in GameIds, d \in Durations :
          LET after == RecordedStats(second.stats_data, g, d, 0, clock, clock)
          IN  /\ second' = [ second EXCEPT !.stats_data = after ]
              /\ stats_file' = [ exists |-> TRUE, doc |-> after ]
              /\ calls' = Append(calls, [ game_id |-> g, duration |-> d, score |-> 0,
                                          day |-> clock ])
              /\ last_call' = [ op |-> "record_game_session", by |-> "second",
                                game_id |-> g, duration |-> d, score |-> 0,
                                before |-> second.stats_data ]
    /\ UNCHANGED << clock, profile_data, stats_data, profile_file, export_file, at_export,
                    added_at, ops >>
    /\ UNCHANGED catalog_vars
    /\ UNCHANGED << hub, launches, menu, tictactoe >>

NextProcesses ==
    \/ ConstructSecond
    \/ FirstRecordsSession
    \/ SecondRecordsSession

(***************************************************************************)
(* ProfileManager: preferences, recommendations, top games, export/import. *)
(***************************************************************************)
\* set_preference: the preferences dictionary is created when missing, the
\* key is assigned, and _save_profile stamps the profile
PreferenceSet(profile, key, value, now) ==
    LET preferences == IF "preferences" \in DOMAIN profile THEN profile.preferences
                       ELSE EmptyDict
    IN  Stamped(DictUpdate(profile,
                    [ preferences |-> DictUpdate(preferences, [ k \in {key} |-> value ]) ]), now)

\* faulty variant: the slice keeps the whole list
TakeAll(list, n) == list

\* list[:n]: the first n items, or all but the last -n when n is negative
Take(list, n) ==
    LET stop == IF n >= 0 THEN (IF n < Len(list) THEN n ELSE Len(list))
                ELSE (IF Len(list) + n > 0 THEN Len(list) + n ELSE 0)
    IN  SubSeq(list, 1, stop)

\* self.stats_data.get("game_stats", {})
GameStatsOf(stats) == IF "game_stats" \in DOMAIN stats THEN stats.game_stats ELSE << >>

\* g.get("category", default)
GameCategory(g, default) == IF "category" \in DOMAIN g THEN g.category ELSE default

\* g["id"] == game_id, for an entry that has an id
IsGame(g, game_id) == "id" \in DOMAIN g /\ g.id = game_id

\* next((g for g in all_games if g["id"] == game_id), None) raises KeyError:
\* the search comes to an entry without id before it finds the game
FindRaises(all_games, game_id) ==
    \E k \in DOMAIN all_games :
        /\ "id" \notin DOMAIN all_games[k]
        /\ \A j \in 1..(k - 1) : ~IsGame(all_games[j], game_id)

\* next((g for g in all_games if g["id"] == game_id), None), as a list of 0 or 1 games
FindGame(all_games, game_id) ==
    LET found == SelectSeq(all_games, LAMBDA g : IsGame(g, game_id))
    IN  SubSeq(found, 1, IF found = << >> THEN 0 ELSE 1)

\* the played_categories dictionary after the loop over game_stats.items()
RECURSIVE PlayedCategories(_, _)
PlayedCategories(game_stats, all_games) ==
    IF game_stats = << >> THEN << >>
    ELSE LET before == PlayedCategories(SubSeq(game_stats, 1, Len(game_stats) - 1), all_games)
             item == game_stats[Len(game_stats)]
             game_info == FindGame(all_games, item.key)
         IN  IF game_info = << >> THEN before
             ELSE LET category == GameCategory(game_info[1], "arcade")
                      so_far == IF category \in OKeys(before) THEN OGet(before, category) ELSE 0
                  IN  OPut(before, category, so_far + item.val.playtime)

\* faulty variant: of the keys with the greatest value, the last in iteration order
MaxKeyLast(d) ==
    d[CHOOSE i \in DOMAIN d :
        /\ \A j \in DOMAIN d : d[j].val <= d[i].val
        /\ \A j \in DOMAIN d : j > i => d[j].val < d[i].val].key

\* max(d, key=d.get): of the keys with the greatest value, the first in iteration order
MaxKey(d) ==
    d[CHOOSE i \in DOMAIN d :
        /\ \A j \in DOMAIN d : d[j].val <= d[i].val
        /\ \A j \in DOMAIN d : j < i => d[j].val < d[i].val].key

\* faulty variant: the games already played are not filtered out
RecommendedPlayedToo(stats, all_games, limit) ==
    IF GameStatsOf(stats) = << >>
    THEN [ stats |-> stats, save |-> FALSE, raised |-> FALSE, ret |-> Take(all_games, limit) ]
    ELSE IF \E k \in DOMAIN all_games : "id" \notin DOMAIN all_games[k]
    THEN [ stats |-> stats, save |-> FALSE, raised |-> TRUE, ret |-> << >> ]
    ELSE LET played_categories == PlayedCategories(stats.game_stats, all_games)
             found == played_categories # << >>
             favorite_category == IF found THEN MaxKey(played_categories) ELSE "arcade"
             category_games == SelectSeq(all_games,
                                   LAMBDA g : GameCategory(g, None) = favorite_category)
             other_games == SelectSeq(all_games,
                                   LAMBDA g : GameCategory(g, None) # favorite_category)
         IN  [ stats |-> IF found
                         THEN DictUpdate(stats, [ favorite_category |-> favorite_category ])
                         ELSE stats,
               save |-> found,
               raised |-> FALSE,
               ret |-> Take(category_games \o other_games, limit) ]

\* get_recommended_games: the statistics after the call, whether _save_stats
\* runs, whether the call raises (KeyError on an entry of all_games without
\* id: in the loop over the played games, before anything is changed, or in
\* the filter of the unplayed games, after the favorite category is saved),
\* and the list returned
Recommended(stats, all_games, limit) ==
    IF GameStatsOf(stats) = << >>
    THEN [ stats |-> stats, save |-> FALSE, raised |-> FALSE, ret |-> Take(all_games, limit) ]
    ELSE IF \E i \in DOMAIN stats.game_stats : FindRaises(all_games, stats.game_stats[i].key)
    THEN [ stats |-> stats, save |-> FALSE, raised |-> TRUE, ret |-> << >> ]
    ELSE LET played_categories == PlayedCategories(stats.game_stats, all_games)
             found == played_categories # << >>
             favorite_category == IF found THEN MaxKey(played_categories) ELSE "arcade"
             saved == IF found
                      THEN DictUpdate(stats, [ favorite_category |-> favorite_category ])
                      ELSE stats
             played_game_ids == OKeys(stats.game_stats)
         IN  IF \E k \in DOMAIN all_games : "id" \notin DOMAIN all_games[k]
             THEN [ stats |-> saved, save |-> found, raised |-> TRUE, ret |-> << >> ]
             ELSE LET unplayed_games == SelectSeq(all_games,
                                            LAMBDA g : g.id \notin played_game_ids)
                      category_games == SelectSeq(unplayed_games,
                                            LAMBDA g : GameCategory(g, None) = favorite_category)
                      other_games == SelectSeq(unplayed_games,
                                            LAMBDA g : GameCategory(g, None) # favorite_category)
                      recommended == Take(category_games, limit)
                      extended == IF Len(recommended) < limit
                                  THEN recommended
                                       \o Take(other_games, limit - Len(recommended))
                                  ELSE recommended
                  IN  [ stats |-> saved, save |-> found, raised |-> FALSE,
                        ret |-> Take(extended, limit) ]

get_recommended_games(all_games, limit) ==
    LET after == Recommended(stats_data, all_games, limit)
    IN  /\ stats_data' = after.stats
        /\ stats_file' = IF after.save THEN [ exists |-> TRUE, doc |-> after.stats ]
                         ELSE stats_file
        /\ last_call' = [ op |-> "get_recommended_games", all_games |-> all_games,
                          limit |-> limit, ret |-> after.ret, raised |-> after.raised,
                          before |-> [ profile_data |-> profile_data, stats_data |-> stats_data,
                                       profile_file |-> profile_file, stats_file |-> stats_file ] ]
        /\ UNCHANGED << clock, profile_data, profile_file, calls, added_at, export_file, at_export >>
        /\ UNCHANGED catalog_vars
        /\ UNCHANGED aside_vars

\* the entries of the catalogs passed as all_games: the games the sessions
\* are recorded for (x, y) and games never played
GameX == [ id |-> "x", category |-> "puzzle" ]
GameY == [ id |-> "y", category |-> "racing" ]
GameP == [ id |-> "p", category |-> "puzzle" ]
GameR == [ id |-> "r", category |-> "racing" ]
GameQ == [ id |-> "q", category |-> "arcade" ]
\* an entry without category, and an entry without id
GameN == [ id |-> "n", title |-> "No category" ]
NoIdEntry == [ category |-> "puzzle", title |-> "No id" ]

Catalogs ==
    { << >>,
      << GameR, GameX, GameP, GameY, GameN, GameQ >>,
      << GameN, GameR, GameQ >>,
      << [ id |-> "y", title |-> "No category" ], GameP, GameQ, GameX >>,
      << GameX, GameP, NoIdEntry >> }

MaxLimit == 3

\* sessions of the hub (score 0), the clock standing still
RecordPlayed ==
    /\ \E g \in GameIds, d \in Durations : record_game_session(g, d, 0, clock, clock)
    /\ UNCHANGED caller_vars

GetRecommendedGames ==
    /\ \E all_games \in Catalogs, limit \in 0..MaxLimit : get_recommended_games(all_games, limit)
    /\ UNCHANGED caller_vars

NextRecommend ==
    \/ RecordPlayed
    \/ GetRecommendedGames

\* x[1].get(sort_by, 0): the value the records are sorted by, as a fraction
SortValue(stats, sort_by) ==
    IF sort_by \notin DOMAIN stats THEN Frac(0, 1)
    ELSE IF sort_by = "average_score" THEN stats.average_score
    ELSE Frac(stats[sort_by], 1)

\* a <= b for fractions of positive denominator
FracLeq(a, b) == a.num * b.den <= b.num * a.den

\* faulty variant: a record goes before the records of equal value
SortedBackwardOnTies(items, sort_by) ==
    LET Before(i, j) ==
            \/ ~FracLeq(SortValue(items[i].val, sort_by), SortValue(items[j].val, sort_by))
            \/ /\ FracLeq(SortValue(items[j].val, sort_by), SortValue(items[i].val, sort_by))
               /\ i > j
        Rank(i) == 1 + Cardinality({j \in DOMAIN items : Before(j, i)})
    IN  [ r \in DOMAIN items |-> items[CHOOSE i \in DOMAIN items : Rank(i) = r] ]

\* sorted(items, key=..., reverse=True): descending and stable, the items of
\* equal value keep their order; built as the sort does, item by item
RECURSIVE Sorted(_, _)
Sorted(items, sort_by) ==
    IF items = << >> THEN << >>
    ELSE LET init == Sorted(SubSeq(items, 1, Len(items) - 1), sort_by)
             last == items[Len(items)]
             k == Cardinality({i \in DOMAIN init :
                     FracLeq(SortValue(last.val, sort_by), SortValue(init[i].val, sort_by))})
         IN  SubSeq(init, 1, k) \o << last >> \o SubSeq(init, k + 1, Len(init))

\* [{"game_id": game_id, **stats} for game_id, stats in sorted_games[:limit]]
TopGames(stats, limit, sort_by) ==
    LET sorted_games == Sorted(GameStatsOf(stats), sort_by)
        top == Take(sorted_games, limit)
    IN  [ i \in DOMAIN top |-> DictUpdate([ game_id |-> top[i].key ], top[i].val) ]

get_top_games(limit, sort_by) ==
    /\ last_call' = [ op |-> "get_top_games", limit |-> limit, sort_by |-> sort_by,
                      ret |-> TopGames(stats_data, limit, sort_by),
                      before |-> [ profile_data |-> profile_data, stats_data |-> stats_data,
                                   profile_file |-> profile_file, stats_file |-> stats_file ] ]
    /\ UNCHANGED << clock, profile_data, stats_data, profile_file, stats_file, calls, added_at,
                    export_file, at_export >>
    /\ UNCHANGED catalog_vars
    /\ UNCHANGED aside_vars

\* the numeric fields of a per-game record, and a field no record has
SortFields == {"playtime", "high_score", "rating"}

\* the sessions whose records are ranked: three games, short and low or long and high
RecordRanked ==
    /\ \E g \in FavoriteIds, s \in {<< 300, 100 >>, << 600, 300 >>} :
          record_game_session(g, s[1], s[2], clock, clock)
    /\ UNCHANGED caller_vars

GetTopGames ==
    /\ \E limit \in 0..MaxLimit, sort_by \in SortFields : get_top_games(limit, sort_by)
    /\ UNCHANGED caller_vars

NextTopGames ==
    \/ RecordRanked
    \/ GetTopGames

set_preference(key, value, now) ==
    /\ clock <= now /\ now <= MaxClock
    /\ profile_data' = PreferenceSet(profile_data, key, value, now)
    /\ profile_file' = [ exists |-> TRUE, doc |-> profile_data' ]
    /\ clock' = now
    /\ last_call' = [ op |-> "set_preference", key |-> key, value |-> value ]
    /\ UNCHANGED << stats_data, stats_file, calls, added_at, export_file, at_export >>
    /\ UNCHANGED catalog_vars
    /\ UNCHANGED aside_vars

\* the document export_profile dumps; json.dump and json.load give back an
\* equal document, its keys being strings and its values JSON values
ExportData(profile, stats, now) ==
    [ profile |-> profile, stats |-> stats, export_date |-> now, version |-> "2.0.0" ]

export_profile(now) ==
    /\ clock <= now /\ now <= MaxClock
    /\ export_file' = [ exists |-> TRUE, doc |-> ExportData(profile_data, stats_data, now) ]
    /\ at_export' = [ profile |-> profile_data, stats |-> stats_data ]
    /\ clock' = now
    /\ last_call' = [ op |-> "export_profile" ]
    /\ UNCHANGED << profile_data, stats_data, profile_file, stats_file, calls, added_at >>
    /\ UNCHANGED catalog_vars
    /\ UNCHANGED aside_vars

\* faulty variant: import_profile takes the profile and leaves the statistics
ImportedProfileOnly(profile, stats, import_data, now) ==
    [ profile |-> IF "profile" \in DOMAIN import_data THEN Stamped(import_data.profile, now)
                  ELSE profile,
      save_profile |-> "profile" \in DOMAIN import_data,
      stats |-> stats,
      save_stats |-> FALSE ]

\* import_profile: both dictionaries after the call and which of them are saved
Imported(profile, stats, import_data, now) ==
    [ profile |-> IF "profile" \in DOMAIN import_data THEN Stamped(import_data.profile, now)
                  ELSE profile,
      save_profile |-> "profile" \in DOMAIN import_data,
      stats |-> IF "stats" \in DOMAIN import_data THEN import_data.stats ELSE stats,
      save_stats |-> "stats" \in DOMAIN import_data ]

import_profile(import_data, now) ==
    LET after == Imported(profile_data, stats_data, import_data, now)
    IN  /\ clock <= now /\ now <= MaxClock
        /\ profile_data' = after.profile
        /\ stats_data' = after.stats
        /\ profile_file' = IF after.save_profile THEN [ exists |-> TRUE, doc |-> after.profile ]
                           ELSE profile_file
        /\ stats_file' = IF after.save_stats THEN [ exists |-> TRUE, doc |-> after.stats ]
                         ELSE stats_file
        /\ clock' = IF after.save_profile THEN now ELSE clock
        /\ last_call' = [ op |-> "import_profile", import_data |-> import_data,
                          before |-> [ profile_data |-> profile_data, stats_data |-> stats_data,
                                       profile_file |-> profile_file, stats_file |-> stats_file ] ]
        /\ UNCHANGED << calls, added_at, export_file, at_export >>
        /\ UNCHANGED catalog_vars
        /\ UNCHANGED aside_vars

\* documents written by hand or by another installation: a profile alone,
\* statistics alone, neither
OtherProfile ==
    [ DefaultProfile(0) EXCEPT !.favorites = << "z" >>,
                               !.preferences = [ theme |-> "neon" ] ]

OtherStats == [ DefaultStats EXCEPT !.achievement_count = 5, !.favorite_category = "quiz" ]

ImportFiles ==
    { [ profile |-> OtherProfile, version |-> "2.0.0" ],
      [ stats |-> OtherStats ],
      [ version |-> "2.0.0" ] }

MaxOps == 3

\* one call of a public operation of the one ProfileManager of the profile
Called(operation) ==
    /\ ops < MaxOps
    /\ operation
    /\ ops' = ops + 1
    /\ UNCHANGED hub_vars

CallSetPreference == Called(\E key \in {"theme", "nickname"} : set_preference(key, "neon", clock))

CallAddFavorite == Called(add_favorite("x", clock))

CallRemoveFavorite == Called(remove_favorite("x", clock))

CallRecordGameSession == Called(\E g \in GameIds : record_game_session(g, 300, 100, clock, clock))

CallUnlockAchievement == Called(unlock_achievement("first_game", None, "", clock, clock))

CallGetRecommendedGames ==
    Called(get_recommended_games(<< GameR, GameX, GameP, GameY, GameN, GameQ >>, MaxLimit))

CallExportProfile == Called(export_profile(clock))

CallImportProfile ==
    Called(\E import_data \in ImportFiles \cup (IF export_file.exists THEN {export_file.doc} ELSE {}) :
              import_profile(import_data, clock))

NextProfile ==
    \/ CallSetPreference
    \/ CallAddFavorite
    \/ CallRemoveFavorite
    \/ CallRecordGameSession
    \/ CallUnlockAchievement
    \/ CallGetRecommendedGames
    \/ CallExportProfile
    \/ CallImportProfile
    \/ Tick

(***************************************************************************)
(* EnhancedGameHub: launching a game.  _launch_game blocks in              *)
(* subprocess.run while the child runs, so it is modelled in the steps     *)
(* before the child, the exit of the child, and the rest of the handler.   *)
(***************************************************************************)
ContentB == CHOOSE c \in Contents : c.valid /\ c.title_comment = None

\* self.filtered_games, as _refresh_games loaded them when the hub started;
\* the file of the second game has been deleted since, and may be written again
HubGames == << GameInfo("a.py", ContentA), GameInfo("b_c.py", ContentB) >>

\* how far a launch gets: the file is missing (return), subprocess.run raises
\* (the except clause prints), or the child runs
LaunchOutcome(folder, game, can_start) ==
    IF ~InFolder(folder, game.file) THEN "missing"
    ELSE IF ~can_start THEN "failed"
    ELSE "running"

\* faulty variant: the session is recorded under the file name of the game
SessionGameFile(game) == game.file

\* the id passed to record_game_session: game["id"]
SessionGameId(game) == game.id

MaxLaunches == 3

LaunchGame ==
    /\ hub.pc = "menu"
    /\ Len(launches) < MaxLaunches
    /\ \E i \in DOMAIN HubGames, can_start \in BOOLEAN :
          LET game == HubGames[i]
              outcome == LaunchOutcome(games_folder, game, can_start)
          IN  /\ launches' = Append(launches, [ id |-> game.id, outcome |-> outcome,
                                                calls_before |-> Len(calls) ])
              /\ hub' = IF outcome = "running" THEN [ pc |-> "child", game |-> game ] ELSE hub
              /\ last_call' = [ op |-> "_launch_game", file |-> game.file, outcome |-> outcome ]
    /\ UNCHANGED << clock, profile_data, stats_data, profile_file, stats_file, export_file,
                    at_export, calls, added_at, ops >>
    /\ UNCHANGED catalog_vars
    /\ UNCHANGED aside_vars

\* the child process ends, after the time the launcher will measure
ChildExits ==
    /\ hub.pc = "child"
    /\ \E session_duration \in Durations :
          hub' = [ pc |-> "exited", game |-> hub.game, session_duration |-> session_duration ]
    /\ launches' = [ launches EXCEPT ![Len(launches)].outcome = "exited" ]
    /\ last_call' = [ op |-> "child_exit" ]
    /\ UNCHANGED << clock, profile_data, stats_data, profile_file, stats_file, export_file,
                    at_export, calls, added_at, ops >>
    /\ UNCHANGED catalog_vars
    /\ UNCHANGED aside_vars

\* subprocess.run has returned: the session is recorded with the placeholder score
RecordLaunched ==
    /\ hub.pc = "exited"
    /\ record_game_session(SessionGameId(hub.game), hub.session_duration, 0, clock, clock)
    /\ hub' = [ pc |-> "menu" ]
    /\ UNCHANGED << launches, ops >>

NextHub ==
    \/ LaunchGame
    \/ ChildExits
    \/ RecordLaunched
    \/ WriteFile

(***************************************************************************)
(* _detect_category called on source texts.  A text is the set of the      *)
(* words it holds, in the case they are written in.                        *)
(***************************************************************************)
TextWords == {"Jump", "BULLET", "solve", "car", "brick", "keyboard", "city", "hello"}

\* str.lower() of a word
Lower(w) == CASE w = "Jump" -> "jump" [] w = "BULLET" -> "bullet" [] OTHER -> w

\* content.lower(): the words of the text, lower-cased
content_lower(text) == [ words |-> {Lower(w) : w \in text} ]

DetectCategory ==
    /\ \E text \in SUBSET TextWords :
          last_call' = [ op |-> "_detect_category", text |-> text,
                         ret |-> _detect_category(content_lower(text)) ]
    /\ UNCHANGED catalog_vars
    /\ UNCHANGED aside_vars
    /\ UNCHANGED profile_vars
    /\ UNCHANGED hub_vars

NextCategory == DetectCategory

(***************************************************************************)
(* EnhancedGameHub: the menu.  One action per event that _handle_events    *)
(* takes from the queue; the games folder changes between the events.      *)
(***************************************************************************)
\* _load_layouts: the layouts in the order of the dictionary, and their items_per_row
Layouts == << "grid", "list", "carousel", "cards" >>

ItemsPerRow ==
    [ l \in Range(Layouts) |->
        CASE l = "grid" -> 3 [] l = "list" -> 1 [] l = "carousel" -> 5 [] l = "cards" -> 2 ]

\* ui_manager.current_layout: set from the layout preference when the hub
\* starts and together with it by the L key, so it is read in the preference
current_layout == profile_data.preferences.layout

\* _refresh_games: scan, merge and save, then load what was saved; `order` is
\* the order in which glob lists the folder
Refreshed(order) ==
    LET scan == ScanLoop(order, games_folder.files)
        discovered == IF games_folder.exists /\ ~scan.raised THEN scan.discovered
                      ELSE discovered_games
        config == merge_with_config(LoadConfig(config_file), discovered)
    IN  [ discovered |-> discovered, config |-> config, games |-> ConfigGames(config) ]

\* what _refresh_games does to the catalog, next to the games it returns
RefreshGames(order) ==
    LET refreshed == Refreshed(order)
    IN  /\ discovered_games' = refreshed.discovered
        /\ config_file' = [ exists |-> TRUE, doc |-> refreshed.config ]
        /\ since' = Track(Track(since, games_folder, config_file, "scan"),
                          games_folder, config_file', "save")
        /\ UNCHANGED games_folder

FolderOrders ==
    IF games_folder.exists THEN Orderings(DOMAIN games_folder.files) ELSE { << >> }

\* a game file is put into the games folder
InstallGame ==
    /\ games_folder.exists
    /\ \E f \in GameFiles \ DOMAIN games_folder.files :
          games_folder' = [ games_folder EXCEPT !.files =
                              DictUpdate(@, [ x \in {f} |-> IF f = "a.py" THEN ContentA
                                                            ELSE ContentB ]) ]
    /\ since' = Track(since, games_folder', config_file, "env")
    /\ last_call' = [ op |-> "folder_change" ]
    /\ UNCHANGED << discovered_games, config_file >>
    /\ UNCHANGED profile_vars
    /\ UNCHANGED aside_vars
    /\ UNCHANGED hub_vars

\* the sessions the menu records in a run
MaxSessions == 1

\* __init__: the lists and the selection, then _refresh_games
StartHub ==
    /\ menu.state = "menu"
    /\ "running" \notin DOMAIN menu
    /\ \E order \in FolderOrders :
          /\ RefreshGames(order)
          /\ menu' = [ state |-> "menu", running |-> TRUE,
                       games |-> Refreshed(order).games,
                       filtered_games |-> Refreshed(order).games,
                       selected_game_index |-> 0, hovered_game_index |-> -1,
                       show_settings |-> FALSE, show_stats |-> FALSE ]
    /\ last_call' = [ op |-> "EnhancedGameHub" ]
    /\ UNCHANGED profile_vars
    /\ UNCHANGED << hub, launches, second, tictactoe >>

\* the hub takes events: it has started and its loop runs
TakesEvents == "running" \in DOMAIN menu /\ menu.running

\* an event whose handler changes the menu only
MenuEvent(after) ==
    /\ TakesEvents
    /\ menu' = after
    /\ last_call' = [ op |-> "_handle_events" ]
    /\ UNCHANGED catalog_vars
    /\ UNCHANGED profile_vars
    /\ UNCHANGED << hub, launches, second, tictactoe >>

KeyEscape ==
    MenuEvent(IF menu.show_settings \/ menu.show_stats
              THEN [ menu EXCEPT !.show_settings = FALSE, !.show_stats = FALSE ]
              ELSE [ menu EXCEPT !.running = FALSE ])

KeyUp ==
    MenuEvent(IF menu.selected_game_index >= ItemsPerRow[current_layout]
              THEN [ menu EXCEPT !.selected_game_index = @ - ItemsPerRow[current_layout] ]
              ELSE menu)

KeyDown ==
    MenuEvent(IF menu.selected_game_index + ItemsPerRow[current_layout] < Len(menu.filtered_games)
              THEN [ menu EXCEPT !.selected_game_index = @ + ItemsPerRow[current_layout] ]
              ELSE menu)

KeyLeft ==
    MenuEvent(IF menu.selected_game_index > 0
              THEN [ menu EXCEPT !.selected_game_index = @ - 1 ]
              ELSE menu)

KeyRight ==
    MenuEvent(IF menu.selected_game_index < Len(menu.filtered_games) - 1
              THEN [ menu EXCEPT !.selected_game_index = @ + 1 ]
              ELSE menu)

KeyF1 ==
    MenuEvent([ menu EXCEPT !.show_stats = ~@, !.show_settings = FALSE ])

KeyF2 ==
    MenuEvent([ menu EXCEPT !.show_settings = ~@, !.show_stats = FALSE ])

\* F5: _refresh_games; the selection is not touched
KeyF5 ==
    /\ TakesEvents
    /\ \E order \in FolderOrders :
          /\ RefreshGames(order)
          /\ menu' = [ menu EXCEPT !.games = Refreshed(order).games,
                                   !.filtered_games = Refreshed(order).games ]
    /\ last_call' = [ op |-> "_handle_events" ]
    /\ UNCHANGED profile_vars
    /\ UNCHANGED << hub, launches, second, tictactoe >>

\* Enter: _launch_game of the selected game, when the selection is in the
\* list; the handler returns after the child has exited and the session is recorded
KeyReturn ==
    /\ TakesEvents
    /\ \E can_start \in BOOLEAN, session_duration \in Durations :
          LET launched ==
                  /\ menu.filtered_games # << >>
                  /\ menu.selected_game_index < Len(menu.filtered_games)
              game == menu.filtered_games[menu.selected_game_index + 1]
          IN  IF launched /\ LaunchOutcome(games_folder, game, can_start) = "running"
              THEN /\ Len(calls) < MaxSessions
                   /\ record_game_session(SessionGameId(game), session_duration, 0, clock, clock)
              ELSE /\ last_call' = [ op |-> "_handle_events" ]
                   /\ UNCHANGED catalog_vars
                   /\ UNCHANGED profile_vars
                   /\ UNCHANGED << second, menu, tictactoe >>
    /\ UNCHANGED << hub, launches, ops >>

\* L: the next layout, stored as the preference
KeyL ==
    /\ TakesEvents
    /\ \E i \in DOMAIN Layouts :
          /\ Layouts[i] = current_layout
          /\ set_preference("layout", Layouts[(i % Len(Layouts)) + 1], clock)
    /\ UNCHANGED caller_vars

\* MOUSEMOTION: the mouse is over the tile `over` of calculate_grid_positions
\* (tiles do not overlap), or over no tile (-1)
MouseHover ==
    /\ TakesEvents
    /\ \E over \in -1..(Len(menu.filtered_games) - 1) :
          MenuEvent(IF menu.show_settings \/ menu.show_stats THEN menu
                    ELSE IF over = -1 THEN [ menu EXCEPT !.hovered_game_index = -1 ]
                    ELSE [ menu EXCEPT !.hovered_game_index = over,
                                       !.selected_game_index = over ])

NextMenu ==
    \/ StartHub
    \/ KeyEscape
    \/ KeyReturn
    \/ KeyUp
    \/ KeyDown
    \/ KeyLeft
    \/ KeyRight
    \/ KeyF1
    \/ KeyF2
    \/ KeyF5
    \/ KeyL
    \/ MouseHover
    \/ InstallGame
    \/ DeleteFile

(***************************************************************************)
(* TicTacToe (games/mini_board_game.py).  The cell (row, col) of the board *)
(* is cell 3 * row + col, so get_empty_cells lists the cells in increasing *)
(* order.  X is the human, O the AI.                                       *)
(***************************************************************************)
Cells == 0..8

EmptyBoard == [ c \in Cells |-> "" ]

\* the rows, the columns and the two diagonals
WinningLines ==
    { {0, 1, 2}, {3, 4, 5}, {6, 7, 8}, {0, 3, 6}, {1, 4, 7}, {2, 5, 8}, {0, 4, 8}, {2, 4, 6} }

check_winner(board) ==
    \E line \in WinningLines : \E p \in {"X", "O"} : \A c \in line : board[c] = p

is_board_full(board) == \A c \in Cells : board[c] # ""

get_empty_cells(board) == { c \in Cells : board[c] = "" }

Placed(board, c, player) == [ board EXCEPT ![c] = player ]

SetMax(S) == CHOOSE m \in S : \A x \in S : x <= m
SetMin(S) == CHOOSE m \in S : \A x \in S : m <= x

\* minimax plays the board on to every end; the cells it fills are emptied
\* again when it returns
RECURSIVE minimax(_, _)
minimax(board, is_maximizing) ==
    IF check_winner(board) THEN (IF is_maximizing THEN -1 ELSE 1)
    ELSE IF is_board_full(board) THEN 0
    ELSE IF is_maximizing
    THEN SetMax({ minimax(Placed(board, c, "O"), FALSE) : c \in get_empty_cells(board) })
    ELSE SetMin({ minimax(Placed(board, c, "X"), TRUE) : c \in get_empty_cells(board) })

\* faulty variant: the AI takes the first empty cell
BestMoveFirstEmpty(board) ==
    CHOOSE c \in get_empty_cells(board) : \A d \in get_empty_cells(board) : c <= d

\* ai_move_hard: the first cell, in the order of get_empty_cells, whose score
\* is not exceeded (the loop replaces best_move only on a greater score)
BestMove(board) ==
    LET score == [ c \in get_empty_cells(board) |-> minimax(Placed(board, c, "O"), FALSE) ]
        best == { c \in DOMAIN score : \A d \in DOMAIN score : score[d] <= score[c] }
    IN  CHOOSE c \in best : \A d \in best : c <= d

\* make_move: the mark, then the end of the game or the other player's turn;
\* `moves` is history: the cells marked, in order
make_move(game, c, player) ==
    LET board == Placed(game.board, c, player)
        marked == [ game EXCEPT !.board = board,
                                !.moves = Append(@, [ cell |-> c, player |-> player ]) ]
    IN  IF check_winner(board)
        THEN [ marked EXCEPT !.game_over = TRUE, !.winner = player,
                             !.player_score = IF player = "X" THEN @ + 1 ELSE @,
                             !.ai_score = IF player = "O" THEN @ + 1 ELSE @ ]
        ELSE IF is_board_full(board)
        THEN [ marked EXCEPT !.game_over = TRUE, !.winner = "Tie", !.ties = @ + 1 ]
        ELSE [ marked EXCEPT !.current_player = IF player = "X" THEN "O" ELSE "X" ]

TicTacToeStep(after) ==
    /\ tictactoe' = after
    /\ last_call' = [ op |-> "TicTacToe" ]
    /\ UNCHANGED catalog_vars
    /\ UNCHANGED profile_vars
    /\ UNCHANGED << hub, launches, second, menu >>

\* __init__
StartTicTacToe ==
    /\ "board" \notin DOMAIN tictactoe
    /\ TicTacToeStep([ board |-> EmptyBoard, current_player |-> "X", game_over |-> FALSE,
                       winner |-> None, player_score |-> 0, ai_score |-> 0, ties |-> 0,
                       ai_difficulty |-> "medium", moves |-> << >> ])

\* the key 3
KeyHard ==
    /\ "board" \in DOMAIN tictactoe
    /\ TicTacToeStep([ tictactoe EXCEPT !.ai_difficulty = "hard" ])

\* a left click on a cell of the board, in the human's turn; a click on a
\* marked cell changes nothing.  The human plays once the difficulty is hard.
MouseClick ==
    /\ "board" \in DOMAIN tictactoe
    /\ tictactoe.ai_difficulty = "hard"
    /\ ~tictactoe.game_over /\ tictactoe.current_player = "X"
    /\ \E c \in Cells :
          TicTacToeStep(IF tictactoe.board[c] = "" THEN make_move(tictactoe, c, "X")
                        ELSE tictactoe)

\* update: the AI's turn; ai_move calls ai_move_hard when the difficulty is
\* neither easy nor medium
AIMove ==
    /\ "board" \in DOMAIN tictactoe
    /\ ~tictactoe.game_over /\ tictactoe.current_player = "O"
    /\ tictactoe.ai_difficulty \notin {"easy", "medium"}
    /\ TicTacToeStep(make_move(tictactoe, BestMove(tictactoe.board), "O"))

NextTicTacToe ==
    \/ StartTicTacToe
    \/ KeyHard
    \/ MouseClick
    \/ AIMove

(***************************************************************************)
(* _extract_title on source texts given line by line.  A line is described *)
(* by what _extract_title reads in it: whether it starts with '#' once     *)
(* stripped, whether its lower-cased text contains 'title' or 'name', what  *)
(* follows its first ':' and its first '-' (if any), whether it opens the  *)
(* module docstring and with what text, and, if 'TITLE' occurs in it,      *)
(* what follows the first '=' after it, quotes stripped (if any).          *)
(***************************************************************************)
Line(text, hash, names, colon, dash, doc, mentions, assigned) ==
    [ text |-> text, hash |-> hash, names |-> names, colon |-> colon, dash |-> dash,
      doc |-> doc, TITLE |-> [ occurs |-> mentions, assigned |-> assigned ] ]

SourceLines ==
    { Line("# Name - Moon: Base", TRUE, TRUE, "Base", "Moon: Base", None, FALSE, None),
      Line("# Game name - Tetra", TRUE, TRUE, None, "Tetra", None, FALSE, None),
      Line("# The game title", TRUE, TRUE, None, None, None, FALSE, None),
      Line("# Author: me", TRUE, FALSE, "me", None, None, FALSE, None),
      Line("\"\"\"Doc line", FALSE, FALSE, None, None, "Doc line", FALSE, None),
      Line("TITLE = \"Var Title\"", FALSE, FALSE, None, None, None, TRUE, "Var Title"),
      Line("print(TITLE)", FALSE, FALSE, None, None, None, TRUE, None) }

\* the line count of `for line in lines[:20]`
TitleScanLines == 20

\* a source text: `blank` empty lines, then the lines
BlankLines == {0, 19}
MaxLines == 2
Sources ==
    { [ blank |-> b, lines |-> ls ] :
        b \in BlankLines, ls \in UNION { [1..n -> SourceLines] : n \in 0..MaxLines } }

\* lines 80-87: the loop over lines[:scanned], from line i of the text on;
\* None when it falls through
RECURSIVE TitleCommentFrom(_, _, _)
TitleCommentFrom(source, i, scanned) ==
    IF i > Len(source.lines) \/ source.blank + i > scanned THEN None
    ELSE LET line == source.lines[i]
         IN  IF line.hash /\ line.names /\ line.colon # None THEN line.colon
             ELSE IF line.hash /\ line.names /\ line.dash # None THEN line.dash
             ELSE TitleCommentFrom(source, i + 1, scanned)

\* faulty variant: every line of the text is scanned for the title comment
TitleCommentAnywhere(source) ==
    TitleCommentFrom(source, 1, source.blank + Len(source.lines))

TitleComment(source) == TitleCommentFrom(source, 1, TitleScanLines)

\* lines 90-98: the first occurrence of 'TITLE' decides; None when it falls through
TitleVariable(source) ==
    LET mentions == { i \in DOMAIN source.lines : source.lines[i].TITLE.occurs }
    IN  IF mentions = {} THEN None
        ELSE source.lines[CHOOSE i \in mentions : \A j \in mentions : i <= j].TITLE.assigned

\* what _extract_title reads in the text
TitleReading(source) ==
    [ title_comment |-> TitleComment(source), title_var |-> TitleVariable(source) ]

ExtractTitle ==
    /\ \E source \in Sources, file \in GameFiles :
          last_call' = [ op |-> "_extract_title", source |-> source, filename |-> Stem(file),
                         ret |-> _extract_title(TitleReading(source), Stem(file)) ]
    /\ UNCHANGED catalog_vars
    /\ UNCHANGED aside_vars
    /\ UNCHANGED profile_vars
    /\ UNCHANGED hub_vars

NextTitle == ExtractTitle

SpecCatalog == Init /\ [][NextCatalog]_vars

SpecMerge == Init /\ [][NextMerge]_vars

SpecCategory == InitFirstRun /\ [][NextCategory]_vars

SpecTitle == InitFirstRun /\ [][NextTitle]_vars

SpecSessions == InitFirstRun /\ [][NextSessions]_vars

SpecFavorites == InitFirstRun /\ [][NextFavorites]_vars

SpecAchievements == InitFirstRun /\ [][NextAchievements]_vars

SpecDaily == InitFirstRun /\ [][NextDaily]_vars

SpecBuckets == InitFirstRun /\ [][NextBuckets]_vars

SpecProcesses == InitFirstRun /\ [][NextProcesses]_vars

SpecRecommend == InitFirstRun /\ [][NextRecommend]_vars

SpecTopGames == InitFirstRun /\ [][NextTopGames]_vars

SpecProfile == InitFirstRun /\ [][NextProfile]_vars

SpecHub == InitFirstRun /\ [][NextHub]_vars

SpecMenu == InitFirstRun /\ [][NextMenu]_vars

SpecTicTacToe == InitFirstRun /\ [][NextTicTacToe]_vars

(***************************************************************************)
(* Properties of the catalog merge.                                        *)
(***************************************************************************)
DiscoveredFiles(discovered_list) == {discovered_list[i].file : i \in DOMAIN discovered_list}

\* C1: for every discovered game whose file names an entry of the existing
\* catalog (the entry the lookup keeps: the last one of that file),
\* merge_with_config returns an entry whose playtime, high_score, last_played
\* and completion_rate are exactly the existing entry's (present with the
\* same value, or absent as there), and whose every other discovered field
\* has the discovered value.
C1_MergeKeepsUserFields ==
    last_call.op = "merge_with_config" =>
        LET games == ConfigGames(last_call.existing)
        IN  \A i \in DOMAIN last_call.discovered : \A j \in DOMAIN games :
                LET d == last_call.discovered[i]
                    e == games[j]
                    m == last_call.ret.games[i]
                IN  ( /\ EntryFile(e) = d.file
                      /\ \A j2 \in DOMAIN games : EntryFile(games[j2]) = d.file => j2 <= j )
                    => /\ \A k \in UserOwned :
                              /\ k \in DOMAIN m <=> k \in DOMAIN e
                              /\ k \in DOMAIN e => m[k] = e[k]
                       /\ \A k \in (DOMAIN d) \ UserOwned : k \in DOMAIN m /\ m[k] = d[k]

\* C1 witness: a merge returned an entry that kept the played entry's user
\* data, which differ from the discovered defaults, and took the discovered title
C1_Witness ==
    /\ last_call.op = "merge_with_config"
    /\ \E i \in DOMAIN last_call.discovered :
          /\ last_call.discovered[i].file \in ExistingKeys(ConfigGames(last_call.existing))
          /\ last_call.discovered[i].playtime = 0
          /\ last_call.ret.games[i].playtime = 120
          /\ last_call.ret.games[i].last_played # None
          /\ last_call.ret.games[i].title = last_call.discovered[i].title
          /\ last_call.ret.games[i].title # "Old title"

\* C2: while a game file stays in the games folder, every scan_games_folder +
\* save_updated_config cycle leaves the persisted entry of that file with the
\* user data it had, whatever the file's content has become.
C2_UserDataSurvivesCycles ==
    last_call.op = "save_updated_config" =>
        \A f \in GameFiles :
            (since[f].tracked /\ since[f].scanned) =>
                /\ HasEntry(config_file, f)
                /\ UserData(EntryOf(config_file, f)) = since[f].user

\* C10: the games list merge_with_config returns has one entry per discovered
\* game, in discovery order, and no entry of an existing game whose file was
\* not discovered.
C10_MergedIsDiscovered ==
    last_call.op = "merge_with_config" =>
        LET merged == last_call.ret.games
            games == ConfigGames(last_call.existing)
        IN  /\ Len(merged) = Len(last_call.discovered)
            /\ \A i \in DOMAIN merged : EntryFile(merged[i]) = last_call.discovered[i].file
            /\ \A i, j \in DOMAIN merged : i # j => EntryFile(merged[i]) # EntryFile(merged[j])
            /\ \A j \in DOMAIN games :
                  EntryFile(games[j]) \notin DiscoveredFiles(last_call.discovered)
                  => \A i \in DOMAIN merged : EntryFile(merged[i]) # EntryFile(games[j])

\* C10 witness: a merge of two discovered games, listed b_c.py before a.py,
\* into a catalog that holds an entry of a file that was not discovered
C10_Witness ==
    /\ last_call.op = "merge_with_config"
    /\ Len(last_call.discovered) = 2
    /\ last_call.discovered[1].file = "b_c.py"
    /\ \E j \in DOMAIN ConfigGames(last_call.existing) :
          EntryFile(ConfigGames(last_call.existing)[j]) = "gone.py"
    /\ Len(last_call.ret.games) = 2

\* the game files of the folder that ast.parse accepts, and those it rejects
Parseable(folder) ==
    {f \in DOMAIN folder.files : ~StartsWithDunder(f) /\ folder.files[f].valid}

Unparseable(folder) ==
    {f \in DOMAIN folder.files : ~StartsWithDunder(f) /\ ~folder.files[f].valid}

\* C11: scan_games_folder over any mix of parseable and unparseable game files
\* returns without an exception, returns the metadata of exactly the parseable
\* files (one record each), and reports one error for each unparseable file.
C11_ScanSurvivesBadFiles ==
    last_call.op = "scan_games_folder" =>
        /\ ~last_call.raised
        /\ DiscoveredFiles(last_call.ret) = Parseable(games_folder)
        /\ Len(last_call.ret) = Cardinality(Parseable(games_folder))
        /\ \A i \in DOMAIN last_call.ret :
              last_call.ret[i] = GameInfo(last_call.ret[i].file,
                                          games_folder.files[last_call.ret[i].file])
        /\ {last_call.printed[i][2] : i \in DOMAIN last_call.printed} = Unparseable(games_folder)
        /\ Len(last_call.printed) = Cardinality(Unparseable(games_folder))

\* C11 witness: a scan of a folder that holds a parseable and an unparseable
\* game file: one game discovered, one error reported
C11_Witness ==
    /\ last_call.op = "scan_games_folder"
    /\ Cardinality(Parseable(games_folder)) = 1
    /\ Cardinality(Unparseable(games_folder)) = 1
    /\ Len(last_call.ret) = 1
    /\ Len(last_call.printed) = 1
    /\ last_call.printed[1][2] = "b_c.py"
    /\ last_call.ret[1].file = "a.py"
    /\ ~last_call.raised

\* C20: after any sequence of scan_games_folder + save_updated_config cycles,
\* from any existing catalog document, no two entries of the persisted games
\* list have the same file and no two have the same id (each entry has both).
C20_PersistedEntriesUnique ==
    last_call.op = "save_updated_config" =>
        LET games == ConfigGames(config_file.doc)
        IN  /\ config_file.exists
            /\ \A i \in DOMAIN games : {"file", "id"} \subseteq DOMAIN games[i]
            /\ \A i, j \in DOMAIN games :
                  i # j => games[i].file # games[j].file /\ games[i].id # games[j].id

\* C20 witness: a cycle over two game files saved the catalog that began with
\* two entries of a.py (the played one among them) and no hub settings
C20_Witness ==
    /\ last_call.op = "save_updated_config"
    /\ Len(ConfigGames(config_file.doc)) = 2
    /\ \E i \in DOMAIN config_file.doc.games :
          /\ config_file.doc.games[i].file = "a.py"
          /\ "favorite" \in DOMAIN config_file.doc.games[i]
          /\ config_file.doc.games[i].playtime = 120
    /\ config_file.doc.hub_settings = DefaultHubSettings
    /\ "version" \notin DOMAIN config_file.doc

(***************************************************************************)
(* Properties of _detect_category.                                         *)
(***************************************************************************)
\* the categories in the order they are tried, each with its keywords
CategoryOrder ==
    << [ category |-> "platformer", keywords |-> {"platform", "jump", "gravity"} ],
       [ category |-> "shooter", keywords |-> {"shoot", "bullet", "enemy", "alien"} ],
       [ category |-> "puzzle", keywords |-> {"puzzle", "solve", "brain", "logic"} ],
       [ category |-> "racing", keywords |-> {"race", "car", "speed", "lap"} ],
       [ category |-> "arcade", keywords |-> {"break", "brick", "ball", "paddle"} ],
       [ category |-> "clicker", keywords |-> {"click", "increment", "upgrade"} ],
       [ category |-> "quiz", keywords |-> {"quiz", "question", "answer"} ],
       [ category |-> "board", keywords |-> {"board", "chess", "checkers"} ],
       [ category |-> "typing", keywords |-> {"type", "typing", "keyboard"} ],
       [ category |-> "simulation", keywords |-> {"build", "city", "simulation"} ] >>

\* the positions of CategoryOrder whose keyword set has a keyword in the lower-cased text
Matching(text) ==
    {i \in DOMAIN CategoryOrder : AnyOccurs(CategoryOrder[i].keywords, content_lower(text))}

\* C12: for any source text _detect_category returns the first category, in
\* the order platformer, shooter, puzzle, racing, arcade, clicker, quiz, board,
\* typing, simulation, whose keyword set has a keyword occurring in the
\* lower-cased text, and arcade when none matches; a text with a platformer
\* keyword and a shooter keyword is classified platformer.
C12_FirstMatchCategory ==
    last_call.op = "_detect_category" =>
        LET matching == Matching(last_call.text)
        IN  /\ matching = {} => last_call.ret = "arcade"
            /\ \A i \in matching :
                  (\A j \in matching : i <= j) => last_call.ret = CategoryOrder[i].category
            /\ {1, 2} \subseteq matching => last_call.ret = "platformer"

\* C12 witness: a text whose platformer and shooter keywords are written in
\* upper case, next to keywords of later categories
C12_Witness ==
    /\ last_call.op = "_detect_category"
    /\ {"Jump", "BULLET", "car", "keyboard"} \subseteq last_call.text
    /\ last_call.ret = "platformer"

(***************************************************************************)
(* Properties of get_recommended_games.                                    *)
(***************************************************************************)
\* the first min(limit, Len(list)) entries of a list
Truncated(list, limit) == SubSeq(list, 1, IF limit < Len(list) THEN limit ELSE Len(list))

\* a call of get_recommended_games has returned, for a user with play history
RecommendedWithHistory ==
    /\ last_call.op = "get_recommended_games"
    /\ ~last_call.raised
    /\ GameStatsOf(last_call.before.stats_data) # << >>

\* the statistics records of the played games that all_games holds, in the
\* insertion order of the statistics map, each with the category of its game
FoundPlayed(stats, all_games) ==
    LET found == SelectSeq(stats.game_stats, LAMBDA item : FindGame(all_games, item.key) # << >>)
    IN  [ i \in DOMAIN found |->
            [ category |-> GameCategory(FindGame(all_games, found[i].key)[1], "arcade"),
              playtime |-> found[i].val.playtime ] ]

\* the playtime accumulated by a category
CategoryPlaytime(found, category) ==
    SeqSum([ i \in DOMAIN found |-> IF found[i].category = category THEN found[i].playtime ELSE 0 ])

\* the category of maximal accumulated playtime that is reached first
IsFavorite(found, category) ==
    \E i \in DOMAIN found :
        /\ found[i].category = category
        /\ \A j \in DOMAIN found :
              /\ CategoryPlaytime(found, found[j].category) <= CategoryPlaytime(found, category)
              /\ ( /\ CategoryPlaytime(found, found[j].category) = CategoryPlaytime(found, category)
                   /\ found[j].category # category ) =>
                      \E k \in 1..(j - 1) : found[k].category = category

C15_NoHistoryFirstEntries ==
    ( /\ last_call.op = "get_recommended_games"
      /\ GameStatsOf(last_call.before.stats_data) = << >> ) =>
        /\ ~last_call.raised
        /\ last_call.ret = Truncated(last_call.all_games, last_call.limit)
        /\ profile_data = last_call.before.profile_data
        /\ stats_data = last_call.before.stats_data
        /\ profile_file = last_call.before.profile_file
        /\ stats_file = last_call.before.stats_file

\* C15 witness: no history, a catalog of six games, limit 2
C15_Witness ==
    /\ last_call.op = "get_recommended_games"
    /\ stats_data.game_stats = << >>
    /\ Len(last_call.all_games) = 6
    /\ last_call.limit = 2
    /\ last_call.ret = << GameR, GameX >>

\* C16 as stated: for a user with play history get_recommended_games sets and
\* persists favorite_category to the category of maximal accumulated playtime
\* over the played games found in all_games by id, the first reached in the
\* insertion order of the statistics map on a tie.
C16_FavoriteCategoryIsMax ==
    RecommendedWithHistory =>
        /\ IsFavorite(FoundPlayed(last_call.before.stats_data, last_call.all_games),
                      stats_data.favorite_category)
        /\ stats_file = [ exists |-> TRUE, doc |-> stats_data ]

\* C16 amended: the same when at least one played game is found in all_games;
\* when none is found, favorite_category and the persisted statistics are
\* left as they were.
C16_FavoriteCategoryIsMaxWhenFound ==
    RecommendedWithHistory =>
        LET found == FoundPlayed(last_call.before.stats_data, last_call.all_games)
        IN  IF found # << >>
            THEN /\ IsFavorite(found, stats_data.favorite_category)
                 /\ stats_file = [ exists |-> TRUE, doc |-> stats_data ]
                 /\ stats_data = DictUpdate(last_call.before.stats_data,
                                    [ favorite_category |-> stats_data.favorite_category ])
            ELSE /\ stats_data = last_call.before.stats_data
                 /\ stats_file = last_call.before.stats_file

\* C16 witness: x (puzzle) and y (racing) have the same playtime and y was
\* played first
C16_Witness ==
    /\ RecommendedWithHistory
    /\ Len(last_call.before.stats_data.game_stats) = 2
    /\ last_call.before.stats_data.game_stats[1].key = "y"
    /\ last_call.before.stats_data.game_stats[1].val.playtime
          = last_call.before.stats_data.game_stats[2].val.playtime
    /\ last_call.all_games = << GameR, GameX, GameP, GameY, GameN, GameQ >>
    /\ last_call.before.stats_data.favorite_category = "arcade"
    /\ stats_data.favorite_category = "racing"
    /\ stats_file.doc.favorite_category = "racing"

(***************************************************************************)
(* Properties of get_top_games.                                            *)
(***************************************************************************)
\* the call that first recorded a session of the game
FirstRecorded(g) ==
    CHOOSE i \in DOMAIN calls : calls[i].game_id = g /\ \A j \in 1..(i - 1) : calls[j].game_id # g

\* the value of the sort field in a returned record (0 when it has no such field)
FieldOf(row, field) == IF field \in DOMAIN row THEN row[field] ELSE 0

\* C17: for limit >= 0 and a numeric sort field, get_top_games returns
\* min(limit, number of games with statistics) records, each the record of
\* another game, in non-increasing order of the field, records of equal value
\* in the order their games were first recorded; no game left out ranks before
\* a returned one; and no state is modified.
C17_TopGamesSortedStable ==
    last_call.op = "get_top_games" =>
        LET ret == last_call.ret
            field == last_call.sort_by
            games == OKeys(stats_data.game_stats)
            n == Cardinality(games)
            Ranks(a, b) == \/ FieldOf(a, field) > FieldOf(b, field)
                           \/ /\ FieldOf(a, field) = FieldOf(b, field)
                              /\ FirstRecorded(a.game_id) < FirstRecorded(b.game_id)
        IN  /\ Len(ret) = IF last_call.limit < n THEN last_call.limit ELSE n
            /\ \A i \in DOMAIN ret :
                  /\ ret[i].game_id \in games
                  /\ ret[i] = DictUpdate([ game_id |-> ret[i].game_id ],
                                         OGet(stats_data.game_stats, ret[i].game_id))
            /\ \A i, j \in DOMAIN ret : i < j => Ranks(ret[i], ret[j])
            /\ \A g \in games \ {ret[i].game_id : i \in DOMAIN ret} :
                  \A i \in DOMAIN ret :
                      Ranks(ret[i], DictUpdate([ game_id |-> g ], OGet(stats_data.game_stats, g)))
            /\ profile_data = last_call.before.profile_data
            /\ stats_data = last_call.before.stats_data
            /\ profile_file = last_call.before.profile_file
            /\ stats_file = last_call.before.stats_file

\* C17 witness: three games, the two recorded first tie on the playtime and
\* the third has more; the top two by playtime are asked for
C17_Witness ==
    /\ last_call.op = "get_top_games"
    /\ last_call.sort_by = "playtime"
    /\ last_call.limit = 2
    /\ Len(stats_data.game_stats) = 3
    /\ Len(last_call.ret) = 2
    /\ last_call.ret[1].game_id = stats_data.game_stats[3].key
    /\ last_call.ret[2].game_id = stats_data.game_stats[1].key
    /\ stats_data.game_stats[1].val.playtime = stats_data.game_stats[2].val.playtime

(***************************************************************************)
(* Properties of the persistence of the profile and the statistics.        *)
(***************************************************************************)
\* C13: with one ProfileManager for the profile, after every public operation
\* returns (set_preference, add_favorite, remove_favorite, record_game_session,
\* unlock_achievement, get_recommended_games, import_profile) the persisted
\* profile document equals the in-memory profile data and the persisted
\* statistics document equals the in-memory statistics data.
C13_WriteThrough ==
    /\ profile_file = [ exists |-> TRUE, doc |-> profile_data ]
    /\ stats_file = [ exists |-> TRUE, doc |-> stats_data ]

\* C13 witness: a session, then on a later day an unlock, then a
\* recommendation that stored the favorite category
C13_Witness ==
    /\ last_call.op = "get_recommended_games"
    /\ ops = 3
    /\ stats_data.favorite_category = "puzzle"
    /\ stats_data.achievement_count = 1
    /\ stats_data.games_played = 1
    /\ profile_data.last_active > profile_data.created_date

\* a profile without its last_active stamp
Unstamped(profile) == DictRestrict(profile, (DOMAIN profile) \ {"last_active"})

\* C18: import_profile replaces the in-memory and persisted profile exactly
\* when the imported document has a top-level profile key, and the in-memory
\* and persisted statistics exactly when it has a top-level stats key; without
\* the key that part is left unchanged.  So import_profile of the file
\* export_profile wrote restores the statistics, and the profile apart from
\* last_active, to their values at export time, whatever happened in between.
C18_ImportReplacesByKey ==
    last_call.op = "import_profile" =>
        LET import_data == last_call.import_data
            before == last_call.before
        IN  /\ IF "profile" \in DOMAIN import_data
               THEN /\ Unstamped(profile_data) = Unstamped(import_data.profile)
                    /\ profile_file = [ exists |-> TRUE, doc |-> profile_data ]
               ELSE /\ profile_data = before.profile_data
                    /\ profile_file = before.profile_file
            /\ IF "stats" \in DOMAIN import_data
               THEN /\ stats_data = import_data.stats
                    /\ stats_file = [ exists |-> TRUE, doc |-> stats_data ]
               ELSE /\ stats_data = before.stats_data
                    /\ stats_file = before.stats_file
            /\ (export_file.exists /\ import_data = export_file.doc) =>
                  /\ stats_data = at_export.stats
                  /\ stats_file.doc = at_export.stats
                  /\ Unstamped(profile_data) = Unstamped(at_export.profile)
                  /\ Unstamped(profile_file.doc) = Unstamped(at_export.profile)

\* C18 witness: after the export the statistics changed, a day passed, and
\* the import of the exported file brought the exported statistics back
C18_Witness ==
    /\ last_call.op = "import_profile"
    /\ export_file.exists
    /\ last_call.import_data = export_file.doc
    /\ last_call.before.stats_data # at_export.stats
    /\ stats_data = at_export.stats
    /\ profile_data.last_active > at_export.profile.last_active

(***************************************************************************)
(* Properties of the hub's launches.                                       *)
(***************************************************************************)
\* the number of record_game_session calls made when the launch after
\* launch i began, or made so far when launch i is the last
CallsAfter(i) == IF i < Len(launches) THEN launches[i + 1].calls_before ELSE Len(calls)

\* C19: every launch of the hub whose child process ran and exited is followed
\* by exactly one record_game_session call, for the id of that game, made
\* after the child exited and before the next launch starts; a launch whose
\* file is missing or whose process cannot be started records no session.
C19_OneSessionPerLaunch ==
    \A i \in DOMAIN launches :
        LET launch == launches[i]
            waiting == i = Len(launches) /\ hub.pc # "menu"
        IN  /\ launch.outcome \in {"missing", "failed"} => CallsAfter(i) = launch.calls_before
            /\ launch.outcome = "running" =>
                  waiting /\ hub.pc = "child" /\ CallsAfter(i) = launch.calls_before
            /\ launch.outcome = "exited" =>
                  IF waiting
                  THEN hub.pc = "exited" /\ CallsAfter(i) = launch.calls_before
                  ELSE /\ CallsAfter(i) = launch.calls_before + 1
                       /\ calls[CallsAfter(i)].game_id = launch.id

\* C19 witness: a launch of a missing file, a launch that could not start,
\* and a launch whose child ran, exited and was recorded
C19_Witness ==
    /\ Len(launches) = 3
    /\ launches[1].outcome = "missing"
    /\ launches[2].outcome = "failed"
    /\ launches[3].outcome = "exited"
    /\ hub.pc = "menu"
    /\ Len(calls) = 1
    /\ calls[1].game_id = launches[3].id

(***************************************************************************)
(* Properties of record_game_session.                                      *)
(***************************************************************************)
CallsOf(g) == SelectSeq(calls, LAMBDA c : c.game_id = g)

ScoresOf(g) == [i \in DOMAIN CallsOf(g) |-> CallsOf(g)[i].score]

PositiveScoresOf(g) == SelectSeq(ScoresOf(g), LAMBDA x : x > 0)

DurationsPassed == [i \in DOMAIN calls |-> calls[i].duration]

GameStatsSum(field) ==
    SeqSum([i \in DOMAIN stats_data.game_stats |-> stats_data.game_stats[i].val[field]])

SeqMax(s) == CHOOSE m \in Range(s) : \A x \in Range(s) : x <= m

\* C3: from default statistics, after any sequence of record_game_session
\* calls, total_playtime is the sum of the durations passed and the sum of the
\* per-game playtimes, and games_played is the number of calls and the sum of
\* the per-game session counts.
C3_TotalsAreSums ==
    /\ stats_data.total_playtime = SeqSum(DurationsPassed)
    /\ stats_data.total_playtime = GameStatsSum("playtime")
    /\ stats_data.games_played = Len(calls)
    /\ stats_data.games_played = GameStatsSum("sessions")

\* C3 witness: the scenario of two sessions of one game (300 s, then 600 s)
\* followed by a session of another game
C3_Witness ==
    /\ Len(calls) = 3
    /\ calls[1].game_id = calls[2].game_id /\ calls[3].game_id # calls[1].game_id
    /\ calls[1].duration = 300 /\ calls[2].duration = 600
    /\ stats_data.total_playtime = 900 + calls[3].duration
    /\ stats_data.games_played = 3

\* C4: a game's stored high_score never decreases from one call to the next,
\* and after each call it is the maximum score passed for that game so far
\* (scores are not negative).
C4_HighScoreIsMax ==
    /\ \A g \in OKeys(stats_data.game_stats) :
          OGet(stats_data.game_stats, g).high_score = SeqMax(ScoresOf(g))
    /\ last_call.op = "record_game_session" =>
          \A g \in OKeys(last_call.before.game_stats) :
              /\ g \in OKeys(stats_data.game_stats)
              /\ OGet(stats_data.game_stats, g).high_score
                    >= OGet(last_call.before.game_stats, g).high_score

\* C4 witness: a lower score was recorded after the high score of the game
C4_Witness ==
    /\ last_call.op = "record_game_session"
    /\ Len(CallsOf(last_call.game_id)) = 3
    /\ last_call.score = 100
    /\ OGet(stats_data.game_stats, last_call.game_id).high_score = 300
    /\ ScoresOf(last_call.game_id)[1] = 0

\* C5: for a game with no prior record, after n calls with scores s1..sn, all
\* greater than 0, average_score is (s1 + ... + sn) / n.
C5_AverageOfPositiveScores ==
    \A g \in OKeys(stats_data.game_stats) :
        (\A i \in DOMAIN ScoresOf(g) : ScoresOf(g)[i] > 0) =>
            OGet(stats_data.game_stats, g).average_score
                = Frac(SeqSum(ScoresOf(g)), Len(ScoresOf(g)))

\* C5 witness: three sessions of one game with scores 100, 300, 300
C5_Witness ==
    \E g \in GameIds :
        /\ ScoresOf(g) = << 100, 300, 300 >>
        /\ OGet(stats_data.game_stats, g).average_score = [num |-> 700, den |-> 3]

\* C6: a session with score 0 changes neither average_score nor the divisor
\* of later updates: for any mix of zero and positive scores of one game,
\* average_score is the mean of the positive scores recorded so far (0, the
\* initial value, while there is none).
C6_ZeroScoreLeavesAverage ==
    \A g \in OKeys(stats_data.game_stats) :
        OGet(stats_data.game_stats, g).average_score
            = IF PositiveScoresOf(g) = << >> THEN Frac(0, 1)
              ELSE Frac(SeqSum(PositiveScoresOf(g)), Len(PositiveScoresOf(g)))

(***************************************************************************)
(* Properties of the favorites and of the achievements.                    *)
(***************************************************************************)
\* C7: from a default profile, after any sequence of add_favorite and
\* remove_favorite calls the favorites list holds no id twice and keeps the
\* ids in the order they were last added; add_favorite of an id already
\* present and remove_favorite of an absent id change nothing; right after
\* add_favorite(x) is_favorite(x) is true, right after remove_favorite(x) false.
C7_FavoritesOrderedSet ==
    LET favorites == profile_data.favorites
    IN  /\ \A i, j \in DOMAIN favorites : i # j => favorites[i] # favorites[j]
        /\ \A i, j \in DOMAIN favorites :
              i < j => /\ favorites[i] \in DOMAIN added_at.at
                       /\ favorites[j] \in DOMAIN added_at.at
                       /\ added_at.at[favorites[i]] < added_at.at[favorites[j]]
        /\ last_call.op = "add_favorite" =>
              /\ is_favorite(profile_data, last_call.game_id)
              /\ last_call.game_id \in Range(last_call.before) => favorites = last_call.before
        /\ last_call.op = "remove_favorite" =>
              /\ ~is_favorite(profile_data, last_call.game_id)
              /\ last_call.game_id \notin Range(last_call.before) => favorites = last_call.before

\* C7 witness: an id was removed and added again behind two others, and the
\* last call added an id that was already there
C7_Witness ==
    /\ last_call.op = "add_favorite"
    /\ last_call.game_id \in Range(last_call.before)
    /\ Len(profile_data.favorites) = 3
    /\ added_at.at[profile_data.favorites[3]] = 3
    /\ added_at.at[profile_data.favorites[1]] = 1
    /\ added_at.n = 4
    /\ clock > profile_file.doc.last_active

\* C8: unlock_achievement of an id not held returns True, stores the record
\* and raises achievement_count by 1; of an id already held it returns False
\* and leaves the stored record, achievement_count and both persisted
\* documents as they were, whatever game id and description are passed.
C8_UnlockOnce ==
    last_call.op = "unlock_achievement" =>
        LET id == last_call.achievement_id
            before == last_call.before
        IN  IF id \notin DOMAIN before.profile_data.achievements
            THEN /\ last_call.ret = TRUE
                 /\ id \in DOMAIN profile_data.achievements
                 /\ profile_data.achievements[id]
                       = [ unlocked_date |-> last_call.unlocked_date,
                           game_id |-> last_call.game_id,
                           description |-> last_call.description ]
                 /\ stats_data.achievement_count = before.stats_data.achievement_count + 1
                 /\ profile_file.doc.achievements = profile_data.achievements
                 /\ stats_file.doc.achievement_count = stats_data.achievement_count
            ELSE /\ last_call.ret = FALSE
                 /\ profile_data.achievements[id] = before.profile_data.achievements[id]
                 /\ stats_data.achievement_count = before.stats_data.achievement_count
                 /\ profile_file = before.profile_file
                 /\ stats_file = before.stats_file

\* C8 witness: a held achievement was unlocked again, on a later day, with
\* another game id and another description than the stored ones
C8_Witness ==
    /\ last_call.op = "unlock_achievement"
    /\ last_call.ret = FALSE
    /\ profile_data.achievements[last_call.achievement_id].game_id # last_call.game_id
    /\ profile_data.achievements[last_call.achievement_id].description # last_call.description
    /\ profile_data.achievements[last_call.achievement_id].unlocked_date < clock
    /\ profile_file.doc.last_active < clock
    /\ stats_data.achievement_count = 2

(***************************************************************************)
(* Properties of get_daily_playtime.                                       *)
(***************************************************************************)
\* the playtime recorded on the day `date`: the durations of the sessions
\* whose daily bucket it is
RecordedOn(date) ==
    SeqSum([i \in DOMAIN calls |-> IF DateKey(calls[i].day) = date THEN calls[i].duration ELSE 0])

\* C9: for any N >= 0, any history and any moment at which the call runs,
\* get_daily_playtime(N) returns exactly N entries, one for each of the last
\* N calendar days including today (the day the call started, or the day it
\* returned), with that day's recorded playtime, 0 for a day without session.
C9_DailyPlaytimeComplete ==
    last_call.op = "get_daily_playtime" =>
        /\ Cardinality(DOMAIN last_call.ret) = last_call.days
        /\ \E today \in {last_call.started, clock} :
              DOMAIN last_call.ret = {DateKey(today - i) : i \in 0..(last_call.days - 1)}
        /\ \A date \in DOMAIN last_call.ret : last_call.ret[date] = RecordedOn(date)

(***************************************************************************)
(* Properties of the daily, weekly and monthly buckets.                    *)
(***************************************************************************)
\* the sessions recorded while the clock was in the period `key`, in call
\* order; KeyOf names the period of a day (DateKey, WeekKey or MonthKey)
SessionsIn(KeyOf(_), key) == SelectSeq(calls, LAMBDA c : KeyOf(c.day) = key)

DurationsOf(sessions) == [i \in DOMAIN sessions |-> sessions[i].duration]

\* the sum of the field of all the buckets
RECURSIVE BucketSum(_, _)
BucketSum(buckets, field) ==
    IF DOMAIN buckets = {} THEN 0
    ELSE LET k == CHOOSE key \in DOMAIN buckets : TRUE
         IN  buckets[k][field] + BucketSum(DictRestrict(buckets, DOMAIN buckets \ {k}), field)

\* the buckets are those of the periods with a session, and each holds the
\* summed durations of its sessions
Additive(buckets, KeyOf(_)) ==
    /\ DOMAIN buckets = {KeyOf(calls[i].day) : i \in DOMAIN calls}
    /\ \A key \in DOMAIN buckets :
          /\ buckets[key].playtime >= 0
          /\ buckets[key].playtime = SeqSum(DurationsOf(SessionsIn(KeyOf, key)))

\* C21: from default statistics and for durations >= 0, after any sequence of
\* record_game_session calls every daily, weekly and monthly bucket's playtime
\* is non-negative and is the sum of the durations of the sessions recorded
\* while the clock was in that bucket; the daily, the weekly and the monthly
\* playtimes each sum to total_playtime, and the weekly and the monthly
\* session counts each sum to games_played.
C21_BucketsAdditive ==
    /\ Additive(stats_data.daily_stats, DateKey)
    /\ Additive(stats_data.weekly_stats, WeekKey)
    /\ Additive(stats_data.monthly_stats, MonthKey)
    /\ BucketSum(stats_data.daily_stats, "playtime") = stats_data.total_playtime
    /\ BucketSum(stats_data.weekly_stats, "playtime") = stats_data.total_playtime
    /\ BucketSum(stats_data.monthly_stats, "playtime") = stats_data.total_playtime
    /\ BucketSum(stats_data.weekly_stats, "sessions") = stats_data.games_played
    /\ BucketSum(stats_data.monthly_stats, "sessions") = stats_data.games_played

\* C21 witness: two sessions of 300 s on 2023-06-30 and one on 2023-07-01,
\* the next month but the same week: the June bucket and the day's bucket
\* hold 600 s, the week's bucket 900 s
C21_Witness ==
    /\ Len(calls) = 3
    /\ calls[1].day = 0 /\ calls[2].day = 0 /\ calls[3].day = 1
    /\ \A i \in 1..3 : calls[i].duration = 300
    /\ stats_data.daily_stats[DateKey(0)].playtime = 600
    /\ stats_data.monthly_stats[MonthKey(0)].playtime = 600
    /\ stats_data.weekly_stats[WeekKey(0)].playtime = 900
    /\ stats_data.total_playtime = 900

(***************************************************************************)
(* Properties of _extract_title.                                           *)
(***************************************************************************)
\* the first line of the module docstring that opens the text, None without one
LeadingDocstring(source) ==
    IF source.lines # << >> /\ source.lines[1].doc # None THEN source.lines[1].doc ELSE None

\* the lines that are title comments: among the first 20 of the text, a
\* comment containing 'title' or 'name' and a separator
TitleComments(source) ==
    { i \in DOMAIN source.lines :
        /\ source.blank + i <= 20
        /\ source.lines[i].hash /\ source.lines[i].names
        /\ (source.lines[i].colon # None \/ source.lines[i].dash # None) }

HasTitleComment(source) == TitleComments(source) # {}

\* what the first title comment gives: the text after its ':', or after its
\* '-' when it has no ':'
FirstTitleComment(source) ==
    LET line == source.lines[CHOOSE i \in TitleComments(source) :
                                \A j \in TitleComments(source) : i <= j]
    IN  IF line.colon # None THEN line.colon ELSE line.dash

\* the lines in which 'TITLE' occurs
TitleMentions(source) == { i \in DOMAIN source.lines : source.lines[i].TITLE.occurs }

\* the first line mentioning TITLE assigns it
AssignsTitle(source) ==
    /\ TitleMentions(source) # {}
    /\ \A i \in TitleMentions(source) :
          (\A j \in TitleMentions(source) : i <= j) => source.lines[i].TITLE.assigned # None

AssignedTitle(source) ==
    source.lines[CHOOSE i \in TitleMentions(source) :
                    \A j \in TitleMentions(source) : i <= j].TITLE.assigned

\* the title by the precedence comment, docstring, file name
TitleByDocstring(source, filename) ==
    IF HasTitleComment(source) THEN FirstTitleComment(source)
    ELSE IF LeadingDocstring(source) # None THEN LeadingDocstring(source)
    ELSE TitleCase(filename)

\* the title by the precedence comment, TITLE assignment, file name
TitleByVariable(source, filename) ==
    IF HasTitleComment(source) THEN FirstTitleComment(source)
    ELSE IF AssignsTitle(source) THEN AssignedTitle(source)
    ELSE TitleCase(filename)

\* C22 as stated: _extract_title takes the title from (1) a comment of the
\* first 20 lines with 'title' or 'name' and a ':' or '-' separator, else (2)
\* the first line of the leading docstring, else (3) the file name in title
\* case; a text with a leading docstring and no such comment gets the
\* docstring's first line.
C22_TitleFromDocstring ==
    last_call.op = "_extract_title" =>
        last_call.ret = TitleByDocstring(last_call.source, last_call.filename)

\* C22 amended: the title is (1) that of the first comment of the first 20
\* lines with 'title' or 'name' and a separator (what follows the first ':',
\* or the first '-' when the line has no ':'), else (2) what the first line
\* mentioning TITLE assigns after '=', else (3) the file name in title case;
\* the docstring is never read.
C22_TitleFromVariable ==
    last_call.op = "_extract_title" =>
        last_call.ret = TitleByVariable(last_call.source, last_call.filename)

\* C22 witness: a text that opens with a docstring, its title comment on
\* line 21 (out of the scanned lines), titled by the file name
C22_Witness ==
    /\ last_call.op = "_extract_title"
    /\ last_call.source.blank = 19
    /\ Len(last_call.source.lines) = 2
    /\ last_call.source.lines[1].doc = "Doc line"
    /\ last_call.source.lines[2].colon = "Base"
    /\ last_call.filename = "b_c"
    /\ last_call.ret = "B C"

(***************************************************************************)
(* Properties of the high_scores mapping and of the buckets' lists.        *)
(***************************************************************************)
\* C23: from default statistics, after any sequence of record_game_session
\* calls a game id is a key of the top-level high_scores mapping exactly when
\* some session of that game had a score greater than 0, and then
\* high_scores[id] is game_stats[id].high_score.
C23_HighScoresMirror ==
    /\ DOMAIN stats_data.high_scores = {g \in GameIds : PositiveScoresOf(g) # << >>}
    /\ \A g \in DOMAIN stats_data.high_scores :
          /\ g \in OKeys(stats_data.game_stats)
          /\ stats_data.high_scores[g] = OGet(stats_data.game_stats, g).high_score

\* C23 witness: a game scored 300 and then 100, and another game played with
\* score 0 only: high_scores keeps 300 for the first and has no key for the other
C23_Witness ==
    /\ Len(calls) = 3
    /\ calls[1].game_id = calls[2].game_id /\ calls[3].game_id # calls[1].game_id
    /\ calls[1].score = 300 /\ calls[2].score = 100 /\ calls[3].score = 0
    /\ DOMAIN stats_data.high_scores = {calls[1].game_id}
    /\ stats_data.high_scores[calls[1].game_id] = 300
    /\ calls[3].game_id \in OKeys(stats_data.game_stats)

\* a list holds exactly the elements of the set, once each
ListsOnce(list, S) == Range(list) = S /\ Len(list) = Cardinality(S)

GamesIn(sessions) == {sessions[i].game_id : i \in DOMAIN sessions}

\* the scores of the game's sessions among the sessions, in call order
GameScoresIn(sessions, g) ==
    LET of_game == SelectSeq(sessions, LAMBDA c : c.game_id = g)
    IN  [i \in DOMAIN of_game |-> of_game[i].score]

\* C24: after any sequence of record_game_session calls (from default
\* statistics), the games list of each daily, weekly and monthly bucket holds
\* every game id with a session in that period exactly once, and the daily
\* scores list of a game holds one entry per session of the game on that day,
\* in call order, zero scores included.
C24_BucketListsDeduplicated ==
    /\ \A key \in DOMAIN stats_data.daily_stats :
          LET daily == stats_data.daily_stats[key]
              sessions == SessionsIn(DateKey, key)
          IN  /\ ListsOnce(daily.games, GamesIn(sessions))
              /\ DOMAIN daily.scores = GamesIn(sessions)
              /\ \A g \in DOMAIN daily.scores : daily.scores[g] = GameScoresIn(sessions, g)
    /\ \A key \in DOMAIN stats_data.weekly_stats :
          ListsOnce(stats_data.weekly_stats[key].games, GamesIn(SessionsIn(WeekKey, key)))
    /\ \A key \in DOMAIN stats_data.monthly_stats :
          ListsOnce(stats_data.monthly_stats[key].games, GamesIn(SessionsIn(MonthKey, key)))

\* C24 witness: on one day a game is played with scores 100 and 0 and
\* another game once: the day's, week's and month's games hold two ids, the
\* first game's scores of the day are 100, 0
C24_Witness ==
    /\ Len(calls) = 3
    /\ calls[1].day = 1 /\ calls[3].day = 1
    /\ calls[1].game_id = "x" /\ calls[2].game_id = "y" /\ calls[3].game_id = "x"
    /\ calls[1].score = 100 /\ calls[3].score = 0
    /\ stats_data.daily_stats[DateKey(1)].games = << "x", "y" >>
    /\ stats_data.daily_stats[DateKey(1)].scores["x"] = << 100, 0 >>
    /\ Len(stats_data.weekly_stats[WeekKey(1)].games) = 2
    /\ Len(stats_data.monthly_stats[MonthKey(1)].games) = 2

(***************************************************************************)
(* Properties of merge_with_config beside the games list.                  *)
(***************************************************************************)
\* C25: merge_with_config injects the default hub_settings only when the
\* existing document has no hub_settings key; an existing hub_settings
\* object, even one with only some of the default keys, is carried into the
\* result unchanged, as is every other top-level key except games.
C25_HubSettingsOnlyIfAbsent ==
    last_call.op = "merge_with_config" =>
        LET existing == last_call.existing
            ret == last_call.ret
        IN  /\ DOMAIN ret = (DOMAIN existing) \cup {"games", "hub_settings"}
            /\ ret.hub_settings = IF "hub_settings" \in DOMAIN existing
                                  THEN existing.hub_settings ELSE DefaultHubSettings
            /\ \A k \in (DOMAIN existing) \ {"games"} : ret[k] = existing[k]

\* C25 witness: the persisted document has a hub_settings with the theme
\* only, and a game was discovered: the result's hub_settings has the theme only
C25_Witness ==
    /\ last_call.op = "merge_with_config"
    /\ "hub_settings" \in DOMAIN last_call.existing
    /\ last_call.existing.hub_settings = [ theme |-> "neon" ]
    /\ last_call.ret.hub_settings = [ theme |-> "neon" ]
    /\ Len(last_call.discovered) = 2
    /\ Len(last_call.ret.games) = 2

\* C28: for a fixed discovered list, save_updated_config run twice in a row
\* leaves the persisted document of the first run: merging the list into the
\* result of a merge of the same list changes nothing.
C28_MergeIdempotent ==
    [][ (last_call.op = "save_updated_config" /\ last_call'.op = "save_updated_config")
            => config_file' = config_file ]_vars

\* C28 witness: the second of two saves in a row, of a discovered game whose
\* persisted entry keeps the user's data of before the first save, next to a
\* newly discovered game
C28_Witness ==
    /\ last_call.op = "save_updated_config"
    /\ last_call.repeated
    /\ Len(discovered_games) = 2
    /\ Len(config_file.doc.games) = 2
    /\ \E i \in 1..2 : /\ config_file.doc.games[i].file = "a.py"
                       /\ config_file.doc.games[i].playtime = 120
    /\ \E i \in 1..2 : /\ config_file.doc.games[i].file = "b_c.py"
                       /\ config_file.doc.games[i].playtime = 0

(***************************************************************************)
(* The achievement counter across all the operations.                      *)
(***************************************************************************)
\* C26: from a fresh profile and statistics pair, after any sequence of
\* ProfileManager operations (imports of documents with only a profile or
\* only a stats key included), the statistics' achievement_count is the
\* number of entries of the profile's achievements.
C26_AchievementCountMatches ==
    stats_data.achievement_count = Cardinality(DOMAIN profile_data.achievements)

(***************************************************************************)
(* Two ProfileManager instances on one profile.                            *)
(***************************************************************************)
\* C27: with two ProfileManager instances of the same profile, for every
\* interleaving of their record_game_session calls the persisted statistics
\* have games_played equal to the number of calls made by both and
\* total_playtime equal to the sum of all their durations.
C27_NoSessionLost ==
    second.constructed =>
        /\ stats_file.doc.games_played = Len(calls)
        /\ stats_file.doc.total_playtime = SeqSum(DurationsPassed)

(***************************************************************************)
(* The selection of the hub's menu.                                        *)
(***************************************************************************)
\* C29: after any sequence of key events and mouse hovers, the game files
\* changing between refreshes, selected_game_index is a valid index of
\* filtered_games whenever filtered_games is not empty.
C29_SelectionInRange ==
    ("running" \in DOMAIN menu /\ menu.filtered_games # << >>) =>
        (0 <= menu.selected_game_index /\ menu.selected_game_index < Len(menu.filtered_games))

(***************************************************************************)
(* Tic-tac-toe against the hard AI.                                        *)
(***************************************************************************)
\* a game is on or over, the AI at difficulty hard since before the first move
HardGame == "board" \in DOMAIN tictactoe /\ tictactoe.ai_difficulty = "hard"

\* C30: with the AI at difficulty hard for the whole game, from the empty
\* board and the human (X) moving first, whatever the human plays the game
\* never ends with winner X (a finished game is a win of the AI or a tie),
\* the players alternate strictly, and no marked cell is marked again.
C30_HardAINeverLoses ==
    HardGame =>
        LET moves == tictactoe.moves
        IN  /\ tictactoe.winner # "X"
            /\ tictactoe.game_over => tictactoe.winner \in {"O", "Tie"}
            /\ \A i \in DOMAIN moves : moves[i].player = IF i % 2 = 1 THEN "X" ELSE "O"
            /\ \A i, j \in DOMAIN moves : i # j => moves[i].cell # moves[j].cell
            /\ \A c \in Cells :
                  tictactoe.board[c] = IF \E i \in DOMAIN moves : moves[i].cell = c
                                       THEN moves[CHOOSE i \in DOMAIN moves : moves[i].cell = c].player
                                       ELSE ""
            /\ ~tictactoe.game_over =>
                  tictactoe.current_player = IF Len(moves) % 2 = 0 THEN "X" ELSE "O"

\* C30 witness: a game played at hard to the full board: the human took the
\* centre first, nine marks are on the board, and the game is a tie
C30_Witness ==
    /\ HardGame
    /\ tictactoe.game_over
    /\ Len(tictactoe.moves) = 9
    /\ tictactoe.moves[1].cell = 4
    /\ tictactoe.winner = "Tie"
    /\ tictactoe.ties = 1

====
